---- MODULE Spec2Model ----
(***************************************************************************)
(* Room-Temp-Monitoring-Tool: the three variants of the temperature        *)
(* monitor (app.py, ver4.py, ver6.py) as one state machine.  The variable  *)
(* `variant` says which program is running; the variants share the names   *)
(* of the fields they have in common (warning_temp, temp_history, ...).    *)
(*                                                                         *)
(* Temperatures and times are integers (degrees Celsius, seconds).         *)
(* float('nan'), float('inf'), float('-inf') and None are the sentinels    *)
(* NaN, PosInf, NegInf and None; the comparisons FloatGe/FloatLt/FloatGt   *)
(* treat them as Python's float comparisons do.                            *)
(***************************************************************************)
EXTENDS Integers, Sequences, FiniteSets, TLC

VARIABLES
    variant,                  \* "app" | "ver4" | "ver6": the program that runs
    now,                      \* time.time()
    settings_file,            \* temperature_monitor_settings.json
    warning_temp, critical_temp,
    is_monitoring, alert_monitoring_active,
    ohm_available, wmi_available,
    last_warning_time,
    last_email_time, last_warning_email_time, last_critical_email_time,
    temp_history, time_history,
    min_temp, max_temp,
    storage_temperatures, current_status,
    monitor_thread,           \* ver4/ver6: the poll thread (locals and position)
    email_thread,             \* ver6: the report thread
    email_enabled,            \* ver4: email_settings['enabled']
    window,                   \* "open" until on_closing destroys the root window
    start_button, stop_button,\* state of the two buttons: "normal" | "disabled"
    app_threads,              \* app.py: the poll threads started so far
    appended,                 \* number of samples ever appended to the history
    email_sent_at,            \* when an email of each severity was last sent
    events                    \* what the last step read, showed, sent or scheduled

vars == <<variant, now, settings_file, warning_temp, critical_temp,
          is_monitoring, alert_monitoring_active, ohm_available, wmi_available,
          last_warning_time, last_email_time, last_warning_email_time,
          last_critical_email_time, temp_history, time_history, min_temp,
          max_temp, storage_temperatures, current_status, monitor_thread,
          email_thread, email_enabled, window, start_button, stop_button,
          app_threads, appended, email_sent_at, events>>

----------------------------------------------------------------------------
(* Values *)

None == -9999
NaN == -9998
PosInf == 9999
NegInf == -9997

\* Python float comparisons: every comparison with nan is False.
FloatGe(a, b) == a # NaN /\ b # NaN /\ a >= b
FloatGt(a, b) == a # NaN /\ b # NaN /\ a > b
FloatLt(a, b) == a # NaN /\ b # NaN /\ a < b

\* Python truthiness of an optional number: None and 0 are falsy.
Truthy(x) == x # None /\ x # 0

EmptyDict == [d \in {} |-> 0]

Max(S) == CHOOSE x \in S : \A y \in S : y <= x
Min(S) == CHOOSE x \in S : \A y \in S : x <= y

Values(dict) == {dict[d] : d \in DOMAIN dict}

RECURSIVE SumOver(_, _)
SumOver(dict, keys) ==
    IF keys = {} THEN 0
    ELSE LET k == CHOOSE k \in keys : TRUE
         IN dict[k] + SumOver(dict, keys \ {k})

----------------------------------------------------------------------------
(* Program constants *)

HistoryMaxLen == 50            \* deque(maxlen=50)
warning_cooldown == 30
email_interval == 3600
warning_email_interval == 60
critical_email_interval == 60
SchedulerSleep == 30           \* email_scheduler: time.sleep(30)
SchedulerBackoff == 60         \* email_scheduler: time.sleep(60) after an error
MonitorBackoff == 5            \* monitor_temperature: time.sleep(5) after an error
DefaultRefresh == 2            \* refresh_delay when the UI value does not parse
CalibrationOffset == 10        \* ver6: subtracted from every storage reading

----------------------------------------------------------------------------
(* Bounds of the model *)

Epoch == 5000                  \* time.time() when the program starts
MaxPolls == 2                  \* samples appended in one run
SeverityPolls == 1             \* samples appended under SpecSeverity
MaxThreads == 2                \* app.py: poll threads started in one run
HistoryRun == 53               \* samples appended under SpecHistory

\* Clock readings: the start, one second later, and one desktop cooldown
\* after each of the two; the same for the alert email interval.
SecondPoll == 10               \* seconds from a poll to one inside the cooldowns
DesktopClock ==
    {Epoch + o : o \in {0, 1, SecondPoll, warning_cooldown, warning_cooldown + 1}}
EmailClock ==
    {Epoch + o : o \in {0, 1, critical_email_interval,
                        critical_email_interval + 1}}

----------------------------------------------------------------------------
(* collections.deque(maxlen=N).append *)

\* A buffer without a capacity, which HistoryBounded tells apart from deque.
DequeAppendUnbounded(q, x) == Append(q, x)

\* A full buffer that drops its newest sample, which HistoryIsLastSamples
\* tells apart from deque.
DequeAppendDropNewest(q, x) ==
    IF Len(q) < HistoryMaxLen THEN Append(q, x)
    ELSE Append(SubSeq(q, 1, Len(q) - 1), x)

DequeAppend(q, x) ==
    IF Len(q) < HistoryMaxLen THEN Append(q, x)
    ELSE Append(Tail(q), x)

----------------------------------------------------------------------------
(* float(entry.get()): the text of an entry field parsed as a float.       *)
(* ValueError is the result for text that is no number.                    *)

ValueError == -9996

ParseFloat(text) ==
    CASE text = "16" -> 16
      [] text = "17" -> 17
      [] text = "20" -> 20
      [] text = "25" -> 25
      [] text = "49" -> 49
      [] text = "55" -> 55
      [] text = "75" -> 75
      [] text = "85" -> 85
      [] text = "1" -> 1
      [] text = "2" -> 2
      [] text = "5" -> 5
      [] text = "10" -> 10
      [] text = "nan" -> NaN
      [] OTHER -> ValueError

----------------------------------------------------------------------------
(* Severity classification, one operator per place in the code *)

\* A classification with exclusive comparisons, which SeverityBands tells
\* apart from the program's.
SeverityExclusive(v, warning, critical) ==
    IF FloatGt(v, critical) THEN "CRITICAL"
    ELSE IF FloatGt(v, warning) THEN "WARNING"
    ELSE "NORMAL"

\* ver6 monitor_temperature 912/921, ver4 657/670, app.py 192/205
MonitorSeverity(v, warning, critical) ==
    IF FloatGe(v, critical) THEN "CRITICAL"
    ELSE IF FloatGe(v, warning) THEN "WARNING"
    ELSE "NORMAL"

\* ver6 email_scheduler 794/803
SchedulerSeverity(v, warning, critical) ==
    IF FloatGe(v, critical) THEN "CRITICAL"
    ELSE IF FloatGe(v, warning) THEN "WARNING"
    ELSE "NORMAL"

\* ver6 update_display 965-978, ver4 700-707
DisplaySeverity(v, warning, critical) ==
    IF v = None THEN "NO DATA"
    ELSE IF FloatGe(v, critical) THEN "CRITICAL"
    ELSE IF FloatGe(v, warning) THEN "WARNING"
    ELSE "NORMAL"

----------------------------------------------------------------------------
(* ver6: StorageTemperatureReader.  A hardware read is an input of the     *)
(* model: read.error says that the WMI query raised, read.sensors is the   *)
(* sequence of Temperature sensors with a value that w.Sensor() lists, in  *)
(* the order of the listing, and read.hardware the names that w.Hardware() *)
(* lists (empty also when that second query raises, which line 186         *)
(* contains).  The dictionary a read returns is EmptyDict where the code   *)
(* returns None or an empty dictionary.                                    *)

\* Lines 102-106: parent is "Unknown" for a sensor without a Parent
\* attribute and "" for one whose Parent is None or empty.
RawSensor(name, parent, value) ==
    [name |-> name, parent |-> parent, value |-> value]

\* The substring tests of lines 72, 74, 78 and 169 on the texts the model's
\* sensors and hardware carry: "Temperature", "SSD Temperature",
\* "CPU Package", "Samsung SSD 970", "WDC WD10EZEX", "Intel Core i7",
\* "Unknown" and "".
ContainsTemperature(text) == text \in {"Temperature", "SSD Temperature"}
ContainsStorageKeyword(text) == text \in {"Samsung SSD 970", "SSD Temperature"}
ContainsAlternativeKeyword(text) ==
    text \in {"Samsung SSD 970", "SSD Temperature", "WDC WD10EZEX"}

is_storage_sensor(sensor_name, parent_name) ==
    /\ ContainsTemperature(sensor_name)
    /\ \/ ContainsStorageKeyword(parent_name)
       \/ ContainsStorageKeyword(sensor_name)

\* Lines 123-126: the key a storage sensor is stored under.
device_name(sensor) ==
    IF sensor.parent # "" /\ sensor.parent # "Unknown"
    THEN sensor.parent
    ELSE sensor.name

\* A calibration that is applied twice.
AdjustedTwice(raw_temp) == raw_temp - CalibrationOffset - CalibrationOffset

\* Lines 130 and 182: adjusted_temp = raw_temp - 10.
Adjusted(raw_temp) == raw_temp - CalibrationOffset

\* storage_temps[key] = value.
Put(dict, key, value) ==
    [d \in DOMAIN dict \cup {key} |-> IF d = key THEN value ELSE dict[d]]

\* Lines 110-131: storage_temps after the loop has gone through the first
\* n sensors.
RECURSIVE Organize(_, _)
Organize(sensors, n) ==
    IF n = 0 THEN EmptyDict
    ELSE LET sensor == sensors[n]
             before == Organize(sensors, n - 1)
         IN  IF is_storage_sensor(sensor.name, sensor.parent)
             THEN Put(before, device_name(sensor), Adjusted(sensor.value))
             ELSE before

\* Lines 162-171.
storage_devices(hardware) ==
    {hardware[i] : i \in {j \in DOMAIN hardware :
                              ContainsAlternativeKeyword(hardware[j])}}

\* Lines 174-184: storage_temps after the first n sensors.
RECURSIVE AlternativeOrganize(_, _, _)
AlternativeOrganize(sensors, hardware, n) ==
    IF n = 0 THEN EmptyDict
    ELSE LET sensor == sensors[n]
             before == AlternativeOrganize(sensors, hardware, n - 1)
         IN  IF /\ sensor.parent # "Unknown"
                /\ sensor.parent \in storage_devices(hardware)
             THEN Put(before, sensor.parent, Adjusted(sensor.value))
             ELSE before

find_storage_temps_alternative(sensors, hardware) ==
    AlternativeOrganize(sensors, hardware, Len(sensors))

\* Lines 95-144: what a query that does not raise returns.
storage_temps(read) ==
    LET found == Organize(read.sensors, Len(read.sensors))
    IN  IF found # EmptyDict THEN found
        ELSE find_storage_temps_alternative(read.sensors, read.hardware)

\* A reader that queries again after a failure, which OhmStaysDisabled
\* tells apart from the program's.
get_storage_temperatures_retry(ohm, read) ==
    IF read.error THEN [ret |-> EmptyDict, ohm |-> FALSE, attempted |-> TRUE]
    ELSE [ret |-> storage_temps(read), ohm |-> TRUE, attempted |-> TRUE]

get_storage_temperatures(ohm, read) ==
    IF ~ohm THEN [ret |-> EmptyDict, ohm |-> ohm, attempted |-> FALSE]
    ELSE IF read.error THEN [ret |-> EmptyDict, ohm |-> FALSE, attempted |-> TRUE]
    ELSE [ret |-> storage_temps(read), ohm |-> ohm, attempted |-> TRUE]

get_max_storage_temperature(ohm, read) ==
    LET r == get_storage_temperatures(ohm, read)
    IN  [ret |-> IF r.ret # EmptyDict THEN Max(Values(r.ret)) ELSE None,
         ohm |-> r.ohm, attempted |-> r.attempted]

\* The average is kept as the pair (sum, count): sum / count is not an integer.
get_average_storage_temperature(ohm, read) ==
    LET r == get_storage_temperatures(ohm, read)
    IN  [ret |-> IF r.ret # EmptyDict
                 THEN <<SumOver(r.ret, DOMAIN r.ret), Cardinality(DOMAIN r.ret)>>
                 ELSE <<>>,
         ohm |-> r.ohm, attempted |-> r.attempted]

----------------------------------------------------------------------------
(* The settings file and load_settings / save_settings *)

NoFile == [kind |-> "absent", critical_temp |-> None, warning_temp |-> None,
           email |-> "missing"]

Malformed == [kind |-> "malformed", critical_temp |-> None,
              warning_temp |-> None, email |-> "missing"]

SettingsRecord(critical, warning, email) ==
    [kind |-> "record", critical_temp |-> critical, warning_temp |-> warning,
     email |-> email]

\* settings.get(key, default): a key the record lacks is None here.
DictGet(value, default) == IF value = None THEN default ELSE value

\* ver6 load_settings: thresholds after loading `file` over the defaults set
\* by __init__ (critical 20, warning 17).
load_settings_ver6(file) ==
    IF file.kind = "record"
    THEN [critical_temp |-> DictGet(file.critical_temp, 20),
          warning_temp |-> DictGet(file.warning_temp, 17)]
    ELSE [critical_temp |-> 20, warning_temp |-> 17]

\* ver4 load_settings: __init__ sets 55/49, a record lacking a key gives 85/75.
load_settings_ver4(file) ==
    IF file.kind = "record"
    THEN [critical_temp |-> DictGet(file.critical_temp, 85),
          warning_temp |-> DictGet(file.warning_temp, 75),
          email_enabled |-> (file.email = "on")]
    ELSE [critical_temp |-> 55, warning_temp |-> 49, email_enabled |-> FALSE]

\* save_settings: the file after writing; an I/O error is caught and leaves it.
save_settings(file, critical, warning, email, disk_ok) ==
    IF disk_ok THEN SettingsRecord(critical, warning, email) ELSE file

EmailKey == IF variant = "ver4"
            THEN (IF email_enabled THEN "on" ELSE "off")
            ELSE "missing"

----------------------------------------------------------------------------
(* Groups of variables, for UNCHANGED *)

thresholds == <<warning_temp, critical_temp>>
emailTimes == <<last_email_time, last_warning_email_time, last_critical_email_time>>
history == <<temp_history, time_history, appended>>
stats == <<min_temp, max_temp>>
readers == <<ohm_available, wmi_available>>
buttons == <<start_button, stop_button>>
threads == <<monitor_thread, email_thread, app_threads>>

----------------------------------------------------------------------------
(* What the last step did, for its collaborators and for the properties:   *)
(* the operation and the clock reading it ran at, the aggregated value it  *)
(* obtained and the severity its alert check gave, the dialog it showed,   *)
(* the desktop notification and the email it sent or scheduled (their      *)
(* severity, "" for none), what update_display was called with, what the   *)
(* sensor chain was given and consulted, and what update_graph plotted     *)
(* when the operation itself called it.  root.after(0, f, ...) is taken as *)
(* the call of f.                                                          *)

NoGiven == [ohm |-> [error |-> FALSE, values |-> <<>>],
            wmi |-> [error |-> FALSE, values |-> <<>>],
            psutil |-> [error |-> FALSE, values |-> <<>>],
            sim |-> [error |-> FALSE, cpu_usage |-> 0, spike |-> 0]]
NoRead == [given |-> NoGiven, ohm_before |-> FALSE, attempted |-> <<>>,
           source |-> "none", ret |-> None]
NoDisplay == [severity |-> "-", max_temp |-> None, avg_temp |-> <<>>,
              alerts |-> TRUE]
NoEvents == [op |-> "", at |-> 0, args |-> <<>>, value |-> None, severity |-> "",
             sampled |-> FALSE, dialog |-> "", desktop |-> "", email |-> "",
             delivered |-> FALSE, display |-> NoDisplay, read |-> NoRead,
             graph |-> <<>>]

Step(op) == [NoEvents EXCEPT !.op = op, !.at = now]

\* ver6 update_graph 858-878: the timestamps and the values it plots
\* against each other, nothing when the history is empty.
update_graph ==
    IF Len(temp_history) > 0 THEN <<time_history, temp_history>> ELSE <<>>

\* ver6 update_display 946-993 (ver4 695-721): what the status line shows.
update_display(m, avg, warning, critical, alerts) ==
    [severity |-> DisplaySeverity(m, warning, critical), max_temp |-> m,
     avg_temp |-> avg, alerts |-> alerts]

\* The record of the last email of each severity, after one of `sev` at t.
Sent(sev, t) == [email_sent_at EXCEPT ![sev] = t]

----------------------------------------------------------------------------
(* ver6: ModernTemperatureMonitor.monitor_temperature, one loop iteration.  *)
(* r1, r2, r3 are the three hardware reads of lines 887-889; refresh is the *)
(* text of refresh_rate_var; fault says that root.after raised at line 902  *)
(* or 932 (the Tk call is made from the poll thread).                       *)

RefreshDelay(refresh) ==
    LET f == ParseFloat(refresh)
    IN  IF f = ValueError THEN DefaultRefresh
        ELSE IF FloatGt(f, 1) THEN f ELSE 1

\* A desktop gate that opens once, for the first notification.
DesktopDueOnce(t, last) == last = 0

\* A desktop cooldown that is always over.
DesktopDueAlways(t, last) == TRUE

\* The desktop cooldown test of lines 914 and 923 (ver4 659 and 672).
DesktopDue(t, last) == t - last > warning_cooldown

\* An alert check that ignores the alert-monitoring flag.
alerts_checked_always(active) == TRUE

\* Line 909 (ver4 654): if self.alert_monitoring_active.
alerts_checked(active) == active

\* A minimum that is the latest sample.
running_min_latest(lo, m) == IF m # None THEN m ELSE lo

\* Lines 896-897: if max_temp < self.min_temp: self.min_temp = max_temp.
running_min(lo, m) == IF m # None /\ m < lo THEN m ELSE lo

\* A loop that an exception ends.
except_sleep_exits(thread, delay) == [thread EXCEPT !.alive = FALSE]

\* Lines 942-944 and 828-830: the except clause inside the while loop
\* prints, sleeps and lets the loop go round.
except_sleep(thread, delay) == [thread EXCEPT !.wake = now + delay]

monitor_temperature_ver6(r1, r2, r3, refresh, fault) ==
    /\ variant = "ver6"
    /\ monitor_thread.alive /\ is_monitoring /\ now >= monitor_thread.wake
    /\ LET g1 == get_storage_temperatures(ohm_available, r1)
           g2 == get_max_storage_temperature(g1.ohm, r2)
           g3 == get_average_storage_temperature(g2.ohm, r3)
           m == g2.ret
           current_time == now - monitor_thread.start_time
           sev == MonitorSeverity(m, warning_temp, critical_temp)
           fire == /\ alerts_checked(alert_monitoring_active)
                   /\ sev # "NORMAL"
                   /\ DesktopDue(now, last_warning_time)
           ev == [Step("monitor_temperature") EXCEPT
                    !.value = m, !.args = <<r1, r2, r3>>,
                    !.read = [NoRead EXCEPT !.ohm_before = ohm_available]]
       IN  /\ storage_temperatures' = g1.ret
           /\ ohm_available' = g3.ohm
           /\ min_temp' = running_min(min_temp, m)
           /\ max_temp' = IF m # None /\ m > max_temp THEN m ELSE max_temp
           /\ IF fault
              THEN \* the except clause of line 942 sleeps 5 seconds
                   /\ monitor_thread' = except_sleep(monitor_thread, MonitorBackoff)
                   /\ events' = [ev EXCEPT !.dialog = "Monitoring error"]
                   /\ UNCHANGED <<history, last_warning_time>>
              ELSE /\ monitor_thread' =
                        [monitor_thread EXCEPT !.wake = now + RefreshDelay(refresh)]
                   /\ IF m # None
                      THEN /\ temp_history' = DequeAppend(temp_history, m)
                           /\ time_history' = DequeAppend(time_history, current_time)
                           /\ appended' = appended + 1
                           /\ last_warning_time' =
                                IF fire THEN now ELSE last_warning_time
                           /\ events' =
                                [ev EXCEPT
                                   !.sampled = TRUE,
                                   !.severity = IF alert_monitoring_active
                                                THEN sev ELSE "",
                                   !.display = update_display(m, g3.ret,
                                       warning_temp, critical_temp,
                                       alert_monitoring_active),
                                   !.desktop = IF fire THEN sev ELSE ""]
                      ELSE /\ events' =
                                [ev EXCEPT
                                   !.display = update_display(None, <<>>,
                                       warning_temp, critical_temp,
                                       alert_monitoring_active)]
                           /\ UNCHANGED <<history, last_warning_time>>
    /\ UNCHANGED <<variant, now, settings_file, thresholds, is_monitoring,
                   alert_monitoring_active, wmi_available, emailTimes,
                   current_status, email_thread, app_threads, email_enabled,
                   window, buttons, email_sent_at>>

\* The poll loop leaves when it finds is_monitoring False at the top.
monitor_exit ==
    /\ variant \in {"ver4", "ver6"}
    /\ monitor_thread.alive /\ ~is_monitoring /\ now >= monitor_thread.wake
    /\ monitor_thread' = [monitor_thread EXCEPT !.alive = FALSE]
    /\ events' = Step("monitor_exit")
    /\ UNCHANGED <<variant, now, settings_file, thresholds, is_monitoring,
                   alert_monitoring_active, readers, last_warning_time,
                   emailTimes, history, stats, storage_temperatures,
                   current_status, email_thread, app_threads, email_enabled,
                   window, buttons, email_sent_at>>

----------------------------------------------------------------------------
(* ver6: email_scheduler, one loop iteration.  read is the hardware read of *)
(* line 790, read2 the one send_regular_email_report makes at line 643,     *)
(* smtp_ok the outcome of the SMTP conversation in _send_email.             *)

\* send_regular_email_report formats 'N/A' with ':.1f' when a value is
\* missing, which raises ValueError before _send_email is called.
ReportFormatRaises(current_max, lo, hi) ==
    \/ ~Truthy(current_max)
    \/ lo = PosInf
    \/ hi = NegInf

\* The email cooldown tests of lines 797, 806 and 815.
EmailDue(t, last, interval) == t - last >= interval

email_scheduler(read, read2, smtp_ok) ==
    /\ variant = "ver6"
    /\ email_thread.alive /\ is_monitoring /\ now >= email_thread.wake
    /\ LET current_time == now
           g == get_max_storage_temperature(ohm_available, read)
           current_max == g.ret
           new_status == SchedulerSeverity(current_max, warning_temp, critical_temp)
           g2 == get_max_storage_temperature(g.ohm, read2)
           ev == [Step("email_scheduler") EXCEPT
                    !.value = current_max,
                    !.severity = IF current_max = None THEN "" ELSE new_status]
           Mail(sev) == [ev EXCEPT !.email = sev, !.delivered = smtp_ok]
           Sleep(d) == [email_thread EXCEPT !.wake = now + d]
       IN  IF current_max = None
           THEN /\ ohm_available' = g.ohm
                /\ email_thread' = Sleep(SchedulerSleep)
                /\ events' = ev
                /\ UNCHANGED <<emailTimes, stats, current_status, email_sent_at>>
           ELSE IF new_status = "CRITICAL"
           THEN /\ ohm_available' = g.ohm
                /\ IF EmailDue(current_time, last_critical_email_time,
                               critical_email_interval)
                   THEN /\ last_critical_email_time' = current_time
                        /\ last_email_time' = current_time
                        /\ events' = Mail("CRITICAL")
                        /\ email_sent_at' = Sent("CRITICAL", now)
                        /\ UNCHANGED last_warning_email_time
                   ELSE /\ events' = ev
                        /\ UNCHANGED <<emailTimes, email_sent_at>>
                /\ current_status' = new_status
                /\ email_thread' = Sleep(SchedulerSleep)
                /\ UNCHANGED stats
           ELSE IF new_status = "WARNING"
           THEN /\ ohm_available' = g.ohm
                /\ IF EmailDue(current_time, last_warning_email_time,
                               warning_email_interval)
                   THEN /\ last_warning_email_time' = current_time
                        /\ last_email_time' = current_time
                        /\ events' = Mail("WARNING")
                        /\ email_sent_at' = Sent("WARNING", now)
                        /\ UNCHANGED last_critical_email_time
                   ELSE /\ events' = ev
                        /\ UNCHANGED <<emailTimes, email_sent_at>>
                /\ current_status' = new_status
                /\ email_thread' = Sleep(SchedulerSleep)
                /\ UNCHANGED stats
           ELSE IF ~EmailDue(current_time, last_email_time, email_interval)
           THEN /\ ohm_available' = g.ohm
                /\ current_status' = new_status
                /\ email_thread' = Sleep(SchedulerSleep)
                /\ events' = ev
                /\ UNCHANGED <<emailTimes, stats, email_sent_at>>
           ELSE IF ReportFormatRaises(g2.ret, min_temp, max_temp)
           THEN \* the ValueError reaches the except clause of line 828
                /\ ohm_available' = g2.ohm
                /\ email_thread' = except_sleep(email_thread, SchedulerBackoff)
                /\ events' = [ev EXCEPT !.dialog = "Email scheduler error"]
                /\ UNCHANGED <<emailTimes, stats, current_status, email_sent_at>>
           ELSE /\ ohm_available' = g2.ohm
                /\ last_email_time' = current_time
                /\ min_temp' = PosInf
                /\ max_temp' = NegInf
                /\ current_status' = new_status
                /\ email_thread' = Sleep(SchedulerSleep)
                /\ events' = Mail("NORMAL")
                /\ email_sent_at' = Sent("NORMAL", now)
                /\ UNCHANGED <<last_warning_email_time, last_critical_email_time>>
    /\ UNCHANGED <<variant, now, settings_file, thresholds, is_monitoring,
                   alert_monitoring_active, wmi_available, last_warning_time,
                   history, storage_temperatures, monitor_thread, app_threads,
                   email_enabled, window, buttons>>

email_exit ==
    /\ variant = "ver6"
    /\ email_thread.alive /\ ~is_monitoring /\ now >= email_thread.wake
    /\ email_thread' = [email_thread EXCEPT !.alive = FALSE]
    /\ events' = Step("email_exit")
    /\ UNCHANGED <<variant, now, settings_file, thresholds, is_monitoring,
                   alert_monitoring_active, readers, last_warning_time,
                   emailTimes, history, stats, storage_temperatures,
                   current_status, monitor_thread, app_threads, email_enabled,
                   window, buttons, email_sent_at>>

----------------------------------------------------------------------------
(* ver4: EnhancedTemperatureReader.  What a hardware source returns is an  *)
(* input: error says that the query raised, values are the readings it     *)
(* listed (OpenHardwareMonitor: sensors with the class of their name;      *)
(* thermal zones: CurrentTemperature in tenths of a kelvin; psutil: the    *)
(* entries' current).                                                      *)

Source(error, values) == [error |-> error, values |-> values]
Sensor(cls, value) == [cls |-> cls, value |-> value]
NoSource == Source(FALSE, <<>>)

Range(seq) == {seq[i] : i \in DOMAIN seq}

\* The element of seq at the first of the positions `ok`, or None.
First(seq, ok) == IF ok = {} THEN None ELSE seq[Min(ok)]

\* A reader that stays enabled when the query raises, which
\* ChainPriorityOhmMarked tells apart from the program's.
get_temperature_ohm_forgiving(read) == [ret |-> None, ohm |-> TRUE]

\* get_temperature_ohm 73-118: the highest CPU/Package sensor, else the
\* highest Core sensor, else the highest other one; an exception disables
\* OpenHardwareMonitor.
get_temperature_ohm(read) ==
    LET usable == {r \in Range(read.values) : r.value # None /\ r.value > 0}
        Of(cls) == {r.value : r \in {u \in usable : u.cls = cls}}
    IN  IF read.error THEN [ret |-> None, ohm |-> FALSE]
        ELSE IF Of("CPU") # {} THEN [ret |-> Max(Of("CPU")), ohm |-> TRUE]
        ELSE IF Of("Core") # {} THEN [ret |-> Max(Of("Core")), ohm |-> TRUE]
        ELSE IF Of("other") # {} THEN [ret |-> Max(Of("other")), ohm |-> TRUE]
        ELSE [ret |-> None, ohm |-> TRUE]

\* get_temperature_builtin_wmi 120-138: the first thermal zone between 10
\* and 120 degrees; an exception gives None and changes no flag.
Celsius(decikelvin) == (decikelvin \div 10) - 273
ZoneOk(k) == k # 0 /\ 10 <= Celsius(k) /\ Celsius(k) <= 120
get_temperature_builtin_wmi(read) ==
    LET zone == First(read.values,
                      {i \in DOMAIN read.values : ZoneOk(read.values[i])})
    IN  IF read.error \/ zone = None THEN None ELSE Celsius(zone)

\* get_temperature_psutil 140-155: the first entry with a positive current.
EntryOk(current) == Truthy(current) /\ current > 0
get_temperature_psutil(read) ==
    IF read.error THEN None
    ELSE First(read.values,
               {i \in DOMAIN read.values : EntryOk(read.values[i])})

\* simulate_temperature 157-174, without the one-degree jitter: sim gives
\* the CPU usage, the spike drawn (0: none) and whether psutil raised.
Simulation(error, cpu_usage, spike) ==
    [error |-> error, cpu_usage |-> cpu_usage, spike |-> spike]
simulate_temperature(sim) ==
    LET base_temp == 35 + sim.cpu_usage \div 4
    IN  IF sim.error THEN 45
        ELSE IF sim.cpu_usage > 80 /\ sim.spike > 0
             THEN Min({85, base_temp + sim.spike})
             ELSE Max({25, base_temp})

Given(ohm, wmi, psutil, sim) ==
    [ohm |-> ohm, wmi |-> wmi, psutil |-> psutil, sim |-> sim]

\* get_temperature_multisource 49-71: the value, the flag afterwards, the
\* sources whose read was attempted and the one that answered.
get_temperature_multisource(ohm, wmi, given) ==
    LET o == get_temperature_ohm(given.ohm)
        w == get_temperature_builtin_wmi(given.wmi)
        p == get_temperature_psutil(given.psutil)
        a1 == IF ohm THEN <<"ohm">> ELSE <<>>
        a2 == IF wmi THEN a1 \o <<"wmi">> ELSE a1
        Result(ret, flag, attempted, source) ==
            [given |-> given, ohm_before |-> ohm, ret |-> ret, ohm |-> flag,
             attempted |-> attempted, source |-> source]
    IN  IF ohm /\ o.ret # None THEN Result(o.ret, o.ohm, a1, "ohm")
        ELSE LET flag == IF ohm THEN o.ohm ELSE ohm
             IN  IF wmi /\ w # None THEN Result(w, flag, a2, "wmi")
                 ELSE IF p # None
                      THEN Result(p, flag, a2 \o <<"psutil">>, "psutil")
                      ELSE Result(simulate_temperature(given.sim), flag,
                                  a2 \o <<"psutil">>, "simulation")

\* What the step record keeps of a chain read.
ReadOf(chain) ==
    [given |-> chain.given, ohm_before |-> chain.ohm_before,
     attempted |-> chain.attempted, source |-> chain.source, ret |-> chain.ret]

----------------------------------------------------------------------------
(* ver4: TemperatureMonitor.monitor_temperature, one loop iteration.  fault *)
(* says that root.after raised at line 647; smtp_ok is the outcome of the   *)
(* SMTP conversation of send_email_alert.                                   *)

monitor_temperature_ver4(given, refresh, fault, smtp_ok) ==
    /\ variant = "ver4"
    /\ monitor_thread.alive /\ is_monitoring /\ now >= monitor_thread.wake
    /\ LET chain == get_temperature_multisource(ohm_available, wmi_available, given)
           current_temp == chain.ret
           current_time == now - monitor_thread.start_time
           current_absolute_time == now
           sev == MonitorSeverity(current_temp, warning_temp, critical_temp)
           fire == /\ alerts_checked(alert_monitoring_active)
                   /\ sev # "NORMAL"
                   /\ DesktopDue(current_absolute_time, last_warning_time)
           mail == fire /\ email_enabled
           ev == [Step("monitor_temperature") EXCEPT
                    !.value = current_temp, !.read = ReadOf(chain)]
       IN  /\ ohm_available' = chain.ohm
           /\ IF fault
              THEN /\ monitor_thread' =
                        [monitor_thread EXCEPT !.wake = now + MonitorBackoff]
                   /\ events' = [ev EXCEPT !.dialog = "Monitoring error"]
                   /\ UNCHANGED <<history, last_warning_time, email_sent_at>>
              ELSE /\ monitor_thread' =
                        [monitor_thread EXCEPT !.wake = now + RefreshDelay(refresh)]
                   /\ temp_history' = DequeAppend(temp_history, current_temp)
                   /\ time_history' = DequeAppend(time_history, current_time)
                   /\ appended' = appended + 1
                   /\ last_warning_time' =
                        IF fire THEN current_absolute_time ELSE last_warning_time
                   /\ email_sent_at' =
                        IF mail THEN Sent(sev, now) ELSE email_sent_at
                   /\ events' =
                        [ev EXCEPT
                           !.sampled = TRUE,
                           !.severity = IF alert_monitoring_active
                                        THEN sev ELSE "",
                           !.display = update_display(current_temp, <<>>,
                               warning_temp, critical_temp,
                               alert_monitoring_active),
                           !.desktop = IF fire THEN sev ELSE "",
                           !.email = IF mail THEN sev ELSE "",
                           !.delivered = mail /\ smtp_ok]
    /\ UNCHANGED <<variant, now, settings_file, thresholds, is_monitoring,
                   alert_monitoring_active, wmi_available, emailTimes, stats,
                   storage_temperatures, current_status, email_thread,
                   app_threads, email_enabled, window, buttons>>

----------------------------------------------------------------------------
(* app.py: TemperatureMonitor.  Every start_monitoring starts a thread     *)
(* that runs monitor_temperature with its own start_time and              *)
(* last_warning_time; app_threads lists them.                              *)

Thread(start, wake, last) ==
    [alive |-> TRUE, start_time |-> start, wake |-> wake,
     last_warning_time |-> last]

\* get_temperature 104-118: psutil's first entry with a truthy current, else
\* the simulated value `draw`; None when psutil raised.
get_temperature_app(read, draw) ==
    LET current == First(read.values,
                         {i \in DOMAIN read.values : Truthy(read.values[i])})
    IN  IF read.error THEN None
        ELSE IF current # None THEN current
        ELSE draw

\* One loop iteration of thread i.  fault says that a Tk call made from the
\* thread raised at line 184, before the sample is appended.
monitor_temperature_app(i, read, draw, fault) ==
    /\ variant = "app"
    /\ i \in DOMAIN app_threads
    /\ app_threads[i].alive /\ is_monitoring /\ now >= app_threads[i].wake
    /\ LET th == app_threads[i]
           current_temp == get_temperature_app(read, draw)
           current_time == now - th.start_time
           sev == MonitorSeverity(current_temp, warning_temp, critical_temp)
           fire == /\ sev # "NORMAL"
                   /\ DesktopDue(current_time, th.last_warning_time)
           ev == [Step("monitor_temperature") EXCEPT !.value = current_temp]
       IN  IF current_temp = None
           THEN /\ app_threads' =
                     [app_threads EXCEPT ![i].wake = now + DefaultRefresh]
                /\ events' = ev
                /\ UNCHANGED history
           ELSE IF fault
           THEN /\ app_threads' =
                     [app_threads EXCEPT ![i].wake = now + MonitorBackoff]
                /\ events' = [ev EXCEPT !.dialog = "Monitoring error"]
                /\ UNCHANGED history
           ELSE /\ temp_history' = DequeAppend(temp_history, current_temp)
                /\ time_history' = DequeAppend(time_history, current_time)
                /\ appended' = appended + 1
                /\ app_threads' =
                     [app_threads EXCEPT
                        ![i].wake = now + DefaultRefresh,
                        ![i].last_warning_time =
                            IF fire THEN current_time ELSE @]
                /\ events' =
                     [ev EXCEPT
                        !.sampled = TRUE,
                        !.severity = sev,
                        !.display = update_display(current_temp, <<>>,
                            warning_temp, critical_temp, TRUE),
                        !.desktop = IF fire THEN sev ELSE ""]
    /\ UNCHANGED <<variant, now, settings_file, thresholds, is_monitoring,
                   alert_monitoring_active, readers, last_warning_time,
                   emailTimes, stats, storage_temperatures, current_status,
                   monitor_thread, email_thread, email_enabled, window,
                   buttons, email_sent_at>>

\* Thread i finds is_monitoring False at the top of its loop and returns.
app_exit(i) ==
    /\ variant = "app"
    /\ i \in DOMAIN app_threads
    /\ app_threads[i].alive /\ ~is_monitoring /\ now >= app_threads[i].wake
    /\ app_threads' = [app_threads EXCEPT ![i].alive = FALSE]
    /\ events' = Step("monitor_exit")
    /\ UNCHANGED <<variant, now, settings_file, thresholds, is_monitoring,
                   alert_monitoring_active, readers, last_warning_time,
                   emailTimes, history, stats, storage_temperatures,
                   current_status, monitor_thread, email_thread,
                   email_enabled, window, buttons, email_sent_at>>

start_monitoring ==
    /\ variant = "app" /\ window = "open"
    /\ IF ~is_monitoring
       THEN /\ is_monitoring' = TRUE
            /\ start_button' = "disabled"
            /\ stop_button' = "normal"
            /\ app_threads' = Append(app_threads, Thread(now, now, 0))
       ELSE UNCHANGED <<is_monitoring, buttons, app_threads>>
    /\ events' = Step("start_monitoring")
    /\ UNCHANGED <<variant, now, settings_file, thresholds,
                   alert_monitoring_active, readers, last_warning_time,
                   emailTimes, history, stats, storage_temperatures,
                   current_status, monitor_thread, email_thread,
                   email_enabled, window, email_sent_at>>

stop_monitoring ==
    /\ variant = "app" /\ window = "open"
    /\ is_monitoring' = FALSE
    /\ start_button' = "normal"
    /\ stop_button' = "disabled"
    /\ events' = Step("stop_monitoring")
    /\ UNCHANGED <<variant, now, settings_file, thresholds,
                   alert_monitoring_active, readers, last_warning_time,
                   emailTimes, history, stats, storage_temperatures,
                   current_status, threads, email_enabled, window,
                   email_sent_at>>

----------------------------------------------------------------------------
(* The handlers of the window's buttons and of its close box.              *)

\* A validation that lets equal thresholds through, which RejectsInverted
\* tells apart from the program's.
InvalidThresholdsStrict(new_warning, new_critical) ==
    FloatGt(new_warning, new_critical)

\* The validation of update_settings: `if new_warning >= new_critical`.
InvalidThresholds(new_warning, new_critical) ==
    FloatGe(new_warning, new_critical)

\* update_settings (app.py 251-267, ver4 745-762, ver6 1019-1036): w and c
\* are the texts of the two entry fields; app.py does not persist.
update_settings(w, c, disk_ok) ==
    /\ window = "open"
    /\ LET new_warning == ParseFloat(w)
           new_critical == ParseFloat(c)
           ev == [Step("update_settings") EXCEPT !.args = <<w, c>>]
       IN  IF new_warning = ValueError \/ new_critical = ValueError
           THEN /\ events' = [ev EXCEPT !.dialog = "Please enter valid numbers"]
                /\ UNCHANGED <<thresholds, settings_file>>
           ELSE IF InvalidThresholds(new_warning, new_critical)
           THEN /\ events' =
                     [ev EXCEPT !.dialog = "Warning must be lower than critical"]
                /\ UNCHANGED <<thresholds, settings_file>>
           ELSE /\ warning_temp' = new_warning
                /\ critical_temp' = new_critical
                /\ settings_file' =
                     IF variant = "app" THEN settings_file
                     ELSE save_settings(settings_file, new_critical,
                                        new_warning, EmailKey, disk_ok)
                /\ events' = [ev EXCEPT !.dialog = "Settings updated"]
    /\ UNCHANGED <<variant, now, is_monitoring, alert_monitoring_active,
                   readers, last_warning_time, emailTimes, history, stats,
                   storage_temperatures, current_status, threads,
                   email_enabled, window, buttons, email_sent_at>>

\* ver4 723-728, ver6 995-1000.
start_alert_monitoring ==
    /\ variant \in {"ver4", "ver6"} /\ window = "open"
    /\ start_button = "normal"
    /\ alert_monitoring_active' = TRUE
    /\ start_button' = "disabled"
    /\ stop_button' = "normal"
    /\ events' = [Step("start_alert_monitoring") EXCEPT !.dialog = "Alerts enabled"]
    /\ UNCHANGED <<variant, now, settings_file, thresholds, is_monitoring,
                   readers, last_warning_time, emailTimes, history, stats,
                   storage_temperatures, current_status, threads,
                   email_enabled, window, email_sent_at>>

\* ver4 730-735, ver6 1002-1007.
stop_alert_monitoring ==
    /\ variant \in {"ver4", "ver6"} /\ window = "open"
    /\ stop_button = "normal"
    /\ alert_monitoring_active' = FALSE
    /\ start_button' = "normal"
    /\ stop_button' = "disabled"
    /\ events' = [Step("stop_alert_monitoring") EXCEPT !.dialog = "Alerts disabled"]
    /\ UNCHANGED <<variant, now, settings_file, thresholds, is_monitoring,
                   readers, last_warning_time, emailTimes, history, stats,
                   storage_temperatures, current_status, threads,
                   email_enabled, window, email_sent_at>>

\* ver4 764-768, ver6 1038-1042.
on_closing(disk_ok) ==
    /\ variant \in {"ver4", "ver6"} /\ window = "open"
    /\ is_monitoring' = FALSE
    /\ settings_file' = save_settings(settings_file, critical_temp,
                                      warning_temp, EmailKey, disk_ok)
    /\ window' = "closed"
    /\ events' = Step("on_closing")
    /\ UNCHANGED <<variant, now, thresholds, alert_monitoring_active, readers,
                   last_warning_time, emailTimes, history, stats,
                   storage_temperatures, current_status, threads,
                   email_enabled, buttons, email_sent_at>>

\* ver6 manual_refresh 1009-1017: three reads, then update_display unless
\* there is no value or the refresh-rate text does not parse.
manual_refresh_ver6(r1, r2, r3, refresh) ==
    /\ variant = "ver6" /\ window = "open"
    /\ LET g1 == get_storage_temperatures(ohm_available, r1)
           g2 == get_max_storage_temperature(g1.ohm, r2)
           g3 == get_average_storage_temperature(g2.ohm, r3)
           ev == [Step("manual_refresh") EXCEPT
                    !.value = g2.ret, !.args = <<r1, r2, r3>>,
                    !.read = [NoRead EXCEPT !.ohm_before = ohm_available]]
       IN  /\ storage_temperatures' = g1.ret
           /\ ohm_available' = g3.ohm
           /\ events' =
                IF g2.ret = None THEN ev
                ELSE IF ParseFloat(refresh) = ValueError
                THEN [ev EXCEPT !.dialog = "Exception in Tkinter callback"]
                ELSE [ev EXCEPT !.display = update_display(g2.ret, g3.ret,
                        warning_temp, critical_temp, alert_monitoring_active),
                                !.graph = update_graph]
    /\ UNCHANGED <<variant, now, settings_file, thresholds, is_monitoring,
                   alert_monitoring_active, wmi_available, last_warning_time,
                   emailTimes, history, stats, current_status, threads,
                   email_enabled, window, buttons, email_sent_at>>

\* ver4 manual_refresh 737-743.
manual_refresh_ver4(given, refresh) ==
    /\ variant = "ver4" /\ window = "open"
    /\ LET chain == get_temperature_multisource(ohm_available, wmi_available, given)
           ev == [Step("manual_refresh") EXCEPT
                    !.value = chain.ret, !.read = ReadOf(chain)]
       IN  /\ ohm_available' = chain.ohm
           /\ events' =
                IF ParseFloat(refresh) = ValueError
                THEN [ev EXCEPT !.dialog = "Exception in Tkinter callback"]
                ELSE [ev EXCEPT !.display = update_display(chain.ret, <<>>,
                        warning_temp, critical_temp, alert_monitoring_active)]
    /\ UNCHANGED <<variant, now, settings_file, thresholds, is_monitoring,
                   alert_monitoring_active, wmi_available, last_warning_time,
                   emailTimes, history, stats, storage_temperatures,
                   current_status, threads, email_enabled, window, buttons,
                   email_sent_at>>

\* ver6 send_test_email 774-783: the regular report, outside every cooldown.
send_test_email(read, smtp_ok) ==
    /\ variant = "ver6" /\ window = "open"
    /\ LET g == get_max_storage_temperature(ohm_available, read)
           ev == [Step("send_test_email") EXCEPT !.value = g.ret]
       IN  /\ ohm_available' = g.ohm
           /\ events' =
                IF ReportFormatRaises(g.ret, min_temp, max_temp)
                THEN [ev EXCEPT !.dialog = "Failed to send test email"]
                ELSE [ev EXCEPT
                        !.email = "TEST", !.delivered = smtp_ok,
                        !.dialog = IF smtp_ok THEN "Test email sent"
                                   ELSE "Failed to send test email"]
    /\ UNCHANGED <<variant, now, settings_file, thresholds, is_monitoring,
                   alert_monitoring_active, wmi_available, last_warning_time,
                   emailTimes, history, stats, storage_temperatures,
                   current_status, threads, email_enabled, window, buttons,
                   email_sent_at>>

\* ver4 test_email 576-593.
test_email(smtp_ok) ==
    /\ variant = "ver4" /\ window = "open"
    /\ events' =
         IF ~email_enabled
         THEN [Step("test_email") EXCEPT !.dialog = "Email disabled"]
         ELSE [Step("test_email") EXCEPT
                 !.email = "TEST", !.delivered = smtp_ok,
                 !.dialog = IF smtp_ok THEN "Test email sent"
                            ELSE "Failed to send test email"]
    /\ UNCHANGED <<variant, now, settings_file, thresholds, is_monitoring,
                   alert_monitoring_active, readers, last_warning_time,
                   emailTimes, history, stats, storage_temperatures,
                   current_status, threads, email_enabled, window, buttons,
                   email_sent_at>>

\* ver4 save_email_settings 595-610: port is the text of the port field.
save_email_settings(enabled, port, disk_ok) ==
    /\ variant = "ver4" /\ window = "open"
    /\ IF ParseFloat(port) = ValueError
       THEN /\ events' = [Step("save_email_settings") EXCEPT
                            !.dialog = "Failed to save email settings"]
            /\ UNCHANGED <<email_enabled, settings_file>>
       ELSE /\ email_enabled' = enabled
            /\ settings_file' =
                 save_settings(settings_file, critical_temp, warning_temp,
                               IF enabled THEN "on" ELSE "off", disk_ok)
            /\ events' = [Step("save_email_settings") EXCEPT
                            !.dialog = "Email settings saved"]
    /\ UNCHANGED <<variant, now, thresholds, is_monitoring,
                   alert_monitoring_active, readers, last_warning_time,
                   emailTimes, history, stats, storage_temperatures,
                   current_status, threads, window, buttons, email_sent_at>>

\* Time passes: the clock moves to a later reading of `clock`.
Tick(clock) ==
    /\ \E t \in clock : t > now /\ now' = t
    /\ UNCHANGED <<variant, settings_file, thresholds, is_monitoring,
                   alert_monitoring_active, readers, last_warning_time,
                   emailTimes, history, stats, storage_temperatures,
                   current_status, threads, email_enabled, window, buttons,
                   appended, email_sent_at, events>>

----------------------------------------------------------------------------
(* The states after construction *)

NeverSent == [sev \in {"WARNING", "CRITICAL", "NORMAL"} |-> 0]
NoThread == [alive |-> FALSE, start_time |-> 0, wake |-> 0]
Started == [alive |-> TRUE, start_time |-> Epoch, wake |-> Epoch]

\* What the three constructors have in common.
InitCommon ==
    /\ now = Epoch
    /\ last_warning_time = 0
    /\ last_email_time = 0
    /\ last_warning_email_time = 0
    /\ last_critical_email_time = 0
    /\ temp_history = <<>>
    /\ time_history = <<>>
    /\ min_temp = PosInf
    /\ max_temp = NegInf
    /\ storage_temperatures = EmptyDict
    /\ current_status = "NORMAL"
    /\ window = "open"
    /\ start_button = "normal"
    /\ stop_button = "disabled"
    /\ app_threads = <<>>
    /\ appended = 0
    /\ email_sent_at = NeverSent
    /\ events = NoEvents

\* ver6 __init__ 263-314 with settings file `file`; wmi and ohm are what
\* initialize_wmi found (ver6 27-57).
Init6(file, wmi, ohm) ==
    /\ InitCommon
    /\ variant = "ver6"
    /\ settings_file = file
    /\ critical_temp = load_settings_ver6(file).critical_temp
    /\ warning_temp = load_settings_ver6(file).warning_temp
    /\ is_monitoring = TRUE
    /\ alert_monitoring_active = TRUE
    /\ wmi_available = wmi
    /\ ohm_available = (wmi /\ ohm)
    /\ monitor_thread = Started
    /\ email_thread = Started
    /\ email_enabled = FALSE

\* ver4 __init__ 215-254; wmi and ohm are what initialize_wmi found (25-47).
Init4(file, wmi, ohm) ==
    /\ InitCommon
    /\ variant = "ver4"
    /\ settings_file = file
    /\ critical_temp = load_settings_ver4(file).critical_temp
    /\ warning_temp = load_settings_ver4(file).warning_temp
    /\ email_enabled = load_settings_ver4(file).email_enabled
    /\ is_monitoring = TRUE
    /\ alert_monitoring_active = TRUE
    /\ wmi_available = wmi
    /\ ohm_available = (wmi /\ ohm)
    /\ monitor_thread = Started
    /\ email_thread = NoThread

\* app.py __init__ 14-32: no settings file, no thread until Start is pressed.
InitApp ==
    /\ InitCommon
    /\ variant = "app"
    /\ settings_file = NoFile
    /\ critical_temp = 85
    /\ warning_temp = 75
    /\ is_monitoring = FALSE
    /\ alert_monitoring_active = TRUE
    /\ ohm_available = FALSE
    /\ wmi_available = FALSE
    /\ monitor_thread = NoThread
    /\ email_thread = NoThread
    /\ email_enabled = FALSE

----------------------------------------------------------------------------
(* Inputs *)

\* ver6: a hardware read.
Query(error, sensors, hardware) ==
    [error |-> error, sensors |-> sensors, hardware |-> hardware]
Read(error, sensors) == Query(error, sensors, <<>>)
ReadError == Read(TRUE, <<>>)
Disk(raw) == Read(FALSE, <<RawSensor("Temperature", "Samsung SSD 970", raw)>>)

\* ver4: the chain's sources when only OpenHardwareMonitor lists a sensor.
Idle == Simulation(FALSE, 0, 0)
Cpu(value) == Given(Source(FALSE, <<Sensor("CPU", value)>>), NoSource, NoSource, Idle)

\* app.py: psutil lists one entry.
Entry(current) == Source(FALSE, <<current>>)

----------------------------------------------------------------------------
(* Spec: the three programs with every operation, on a reading in breach   *)
(* and on a failing source.                                                *)

Init ==
    \/ Init6(NoFile, TRUE, TRUE)
    \/ Init4(NoFile, TRUE, TRUE)
    \/ InitApp

Next ==
    \/ \E read \in {ReadError, Disk(30)}, fault \in BOOLEAN :
           /\ appended < MaxPolls
           /\ monitor_temperature_ver6(read, read, read, "2", fault)
    \/ \E read \in {ReadError, Disk(30)}, smtp_ok \in BOOLEAN :
           email_scheduler(read, read, smtp_ok)
    \/ monitor_exit
    \/ email_exit
    \/ \E given \in {Cpu(55), Given(Source(TRUE, <<>>), NoSource, NoSource, Idle)},
          fault \in BOOLEAN :
           /\ appended < MaxPolls
           /\ monitor_temperature_ver4(given, "2", fault, TRUE)
    \/ Len(app_threads) < MaxThreads /\ start_monitoring
    \/ stop_monitoring
    \/ \E i \in 1..MaxThreads, read \in {Source(TRUE, <<>>), Entry(85)},
          fault \in BOOLEAN :
           /\ appended < MaxPolls
           /\ monitor_temperature_app(i, read, 45, fault)
    \/ \E i \in 1..MaxThreads : app_exit(i)
    \/ \E w, c \in {"17", "20"} : update_settings(w, c, TRUE)
    \/ start_alert_monitoring
    \/ stop_alert_monitoring
    \/ \E disk_ok \in BOOLEAN : on_closing(disk_ok)
    \/ \E read \in {ReadError, Disk(30)} :
           manual_refresh_ver6(read, read, read, "2")
    \/ manual_refresh_ver4(Cpu(55), "2")
    \/ \E read \in {ReadError, Disk(30)} : send_test_email(read, TRUE)
    \/ test_email(TRUE)
    \/ save_email_settings(TRUE, "25", TRUE)
    \/ Tick({Epoch + warning_cooldown + 1})

Spec == Init /\ [][Next]_vars

----------------------------------------------------------------------------
(* SpecSeverity: every place that classifies a reading, on readings one    *)
(* degree below, at and one degree above each threshold.                   *)

Around(t) == {t - 1, t, t + 1}
Readings6 == {v + CalibrationOffset : v \in Around(17) \cup Around(20)}
Readings4 == Around(49) \cup Around(55)
ReadingsApp == Around(75) \cup Around(85)

InitSeverity ==
    \/ \E file \in {NoFile, SettingsRecord(20, 25, "missing")} :
           Init6(file, TRUE, TRUE)
    \/ Init4(NoFile, TRUE, TRUE)
    \/ InitApp

NextSeverity ==
    \/ \E raw \in Readings6 :
           /\ appended < SeverityPolls
           /\ monitor_temperature_ver6(Disk(raw), Disk(raw), Disk(raw), "2", FALSE)
    \/ \E raw \in Readings6 : email_scheduler(Disk(raw), Disk(raw), TRUE)
    \/ \E raw \in Readings6 :
           manual_refresh_ver6(Disk(raw), Disk(raw), Disk(raw), "2")
    \/ \E v \in Readings4 :
           /\ appended < SeverityPolls
           /\ monitor_temperature_ver4(Cpu(v), "2", FALSE, TRUE)
    \/ \E v \in Readings4 : manual_refresh_ver4(Cpu(v), "2")
    \/ start_monitoring
    \/ \E v \in ReadingsApp :
           /\ appended < SeverityPolls
           /\ monitor_temperature_app(1, Entry(v), 45, FALSE)
    \/ \E w, c \in {"17", "20"} : update_settings(w, c, TRUE)
    \/ Tick({Epoch + warning_cooldown + 1})

SpecSeverity == InitSeverity /\ [][NextSeverity]_vars

\* The classification the thresholds call for: CRITICAL at or above
\* critical, WARNING from warning up to critical, NORMAL below warning.
InBand(sev, v, warning, critical) ==
    /\ (sev = "CRITICAL") <=> (v >= critical)
    /\ (sev = "WARNING") <=> (warning <= v /\ v < critical)
    /\ (sev = "NORMAL") <=> (v < warning)

\* C1: with ordered thresholds, every place that classifies a reading v (the
\* alert check of the poll loop, the email scheduler, the status display)
\* yields CRITICAL exactly when v >= critical_temp, WARNING exactly when
\* warning_temp <= v < critical_temp, NORMAL exactly when v < warning_temp.
SeverityBands ==
    FloatLt(warning_temp, critical_temp) =>
        /\ events.severity # "" =>
               InBand(events.severity, events.value, warning_temp, critical_temp)
        /\ events.display.max_temp # None =>
               InBand(events.display.severity, events.display.max_temp,
                      warning_temp, critical_temp)

\* A reading exactly at the critical threshold was classified by the alert
\* check and shown.
SeverityBandsWitness ==
    /\ FloatLt(warning_temp, critical_temp)
    /\ events.op = "monitor_temperature"
    /\ events.value = critical_temp
    /\ events.severity = "CRITICAL"
    /\ events.display.severity = "CRITICAL"

----------------------------------------------------------------------------
(* SpecSettings: the thresholds, from the settings file the constructor    *)
(* finds to what the Update button and the close box leave.                *)

\* Settings files: none, unparsable, and records with one threshold missing,
\* with the thresholds in order and with the thresholds swapped.
SettingsFiles6 ==
    {NoFile, Malformed, SettingsRecord(20, 17, "missing"),
     SettingsRecord(20, 25, "missing"), SettingsRecord(None, 25, "missing")}
SettingsFiles4 ==
    {NoFile, Malformed, SettingsRecord(55, 49, "on"),
     SettingsRecord(49, 55, "off"), SettingsRecord(55, None, "off")}

ThresholdTexts == {"17", "20", "nan", "abc"}

InitSettings ==
    \/ \E file \in SettingsFiles6 : Init6(file, TRUE, TRUE)
    \/ \E file \in SettingsFiles4 : Init4(file, TRUE, TRUE)
    \/ InitApp

NextSettings ==
    \/ \E w, c \in ThresholdTexts, disk_ok \in BOOLEAN :
           update_settings(w, c, disk_ok)
    \/ \E disk_ok \in BOOLEAN : on_closing(disk_ok)
    \/ \E enabled, disk_ok \in BOOLEAN, port \in {"25", "abc"} :
           save_email_settings(enabled, port, disk_ok)
    \/ start_alert_monitoring
    \/ stop_alert_monitoring
    \/ Len(app_threads) < MaxThreads /\ start_monitoring
    \/ stop_monitoring

SpecSettings == InitSettings /\ [][NextSettings]_vars

\* C2: in every reachable state, the state right after load_settings and
\* after any update_settings included, warning_temp < critical_temp.
ThresholdsOrdered == FloatLt(warning_temp, critical_temp)

\* C3: update_settings called with warning >= critical is rejected: both
\* thresholds keep their values, nothing is persisted, and the caller is
\* told that the warning threshold must be lower than the critical one.
RejectsInverted ==
    [][(/\ events'.op = "update_settings"
        /\ ParseFloat(events'.args[1]) # ValueError
        /\ ParseFloat(events'.args[2]) # ValueError
        /\ FloatGe(ParseFloat(events'.args[1]), ParseFloat(events'.args[2])))
       => (/\ warning_temp' = warning_temp
           /\ critical_temp' = critical_temp
           /\ settings_file' = settings_file
           /\ events'.dialog = "Warning must be lower than critical")]_vars

\* Update was pressed with the same number in both fields and was refused.
RejectsInvertedWitness ==
    /\ events.op = "update_settings"
    /\ events.args = <<"20", "20">>
    /\ events.dialog = "Warning must be lower than critical"
    /\ warning_temp # 20

----------------------------------------------------------------------------
(* SpecHistory: a long run of the poll loop of each variant.  The k-th     *)
(* sample appended is the reading k, so that the content of the history    *)
(* says which samples it holds.  The thread runs as soon as its sleep is   *)
(* over, two seconds after the iteration before.                           *)

SampleAt(k) == k
NextSample == SampleAt(appended + 1)

Sleeping ==
    IF variant = "app"
    THEN app_threads # <<>> /\ now < app_threads[1].wake
    ELSE now < monitor_thread.wake

InitHistory ==
    \/ Init6(NoFile, TRUE, TRUE)
    \/ Init4(NoFile, TRUE, TRUE)
    \/ InitApp

NextHistory ==
    \/ /\ appended < HistoryRun
       /\ LET read == Disk(NextSample + CalibrationOffset)
          IN  monitor_temperature_ver6(read, read, read, "2", FALSE)
    \/ /\ appended < HistoryRun
       /\ monitor_temperature_ver4(Cpu(NextSample), "2", FALSE, TRUE)
    \/ start_monitoring
    \/ /\ appended < HistoryRun
       /\ monitor_temperature_app(1, Entry(NextSample), 45, FALSE)
    \/ Sleeping /\ Tick({now + DefaultRefresh})

SpecHistory == InitHistory /\ [][NextHistory]_vars

\* C4: the history holds at most N = 50 samples.
HistoryBounded ==
    /\ Len(temp_history) <= HistoryMaxLen
    /\ Len(time_history) <= HistoryMaxLen

\* More samples were appended than the history holds.
HistoryBoundedWitness ==
    /\ appended > HistoryMaxLen
    /\ Len(temp_history) = HistoryMaxLen
    /\ Len(time_history) = HistoryMaxLen

\* C5: after k appends the history is exactly the last min(k, N) samples
\* appended, oldest first; hence an append to a full history drops exactly
\* the oldest sample.
HistoryIsLastSamples ==
    LET held == Min({appended, HistoryMaxLen})
    IN  /\ Len(temp_history) = held
        /\ \A i \in 1..held :
               temp_history[i] = SampleAt(appended - held + i)

\* Two samples were dropped: the history starts at the third sample and
\* ends at the last one appended.
HistoryIsLastSamplesWitness ==
    /\ appended = HistoryMaxLen + 2
    /\ temp_history[1] = SampleAt(3)
    /\ temp_history[HistoryMaxLen] = SampleAt(appended)

----------------------------------------------------------------------------
(* SpecCooldown: the poll loop and the email scheduler on readings in      *)
(* breach, at clock readings one cooldown interval apart, one second less  *)
(* and one second more.                                                    *)

Breach == {"WARNING", "CRITICAL"}

InitCooldown ==
    \/ Init6(NoFile, TRUE, TRUE)
    \/ Init4(SettingsRecord(55, 49, "on"), TRUE, TRUE)

NextCooldown ==
    \/ \E v \in {17, 20} :
           /\ appended < MaxPolls
           /\ LET read == Disk(v + CalibrationOffset)
              IN  monitor_temperature_ver6(read, read, read, "1", FALSE)
    \/ \E v \in {17, 20} :
           LET read == Disk(v + CalibrationOffset)
           IN  email_scheduler(read, read, TRUE)
    \/ \E v \in {49, 55} :
           /\ appended < MaxPolls
           /\ monitor_temperature_ver4(Cpu(v), "1", FALSE, TRUE)
    \/ Tick(DesktopClock \cup EmailClock)

SpecCooldown == InitCooldown /\ [][NextCooldown]_vars

\* The desktop channel: a poll iteration that found a breach.
DesktopGate ==
    (appended' = appended + 1 /\ events'.severity \in Breach) =>
        LET due == \/ last_warning_time = 0
                   \/ now - last_warning_time >= warning_cooldown
        IN  /\ (events'.desktop = events'.severity) <=> due
            /\ last_warning_time' = IF due THEN now ELSE last_warning_time

\* The email channel of ver6: a scheduler iteration that found a breach.
EmailGate ==
    (/\ email_thread' # email_thread
     /\ events'.op = "email_scheduler"
     /\ events'.severity \in Breach) =>
        LET critical == events'.severity = "CRITICAL"
            last == IF critical THEN last_critical_email_time
                    ELSE last_warning_email_time
            interval == IF critical THEN critical_email_interval
                        ELSE warning_email_interval
            due == last = 0 \/ now - last >= interval
        IN  /\ (events'.email = events'.severity) <=> due
            /\ critical =>
                   last_critical_email_time' = IF due THEN now ELSE last
            /\ ~critical =>
                   last_warning_email_time' = IF due THEN now ELSE last

\* C6: on every channel (desktop, email) and for every severity, an attempt
\* at time now during a breach fires, and sets the last-fired time to now,
\* exactly when nothing fired before or now - lastFiredAt >= interval: an
\* attempt exactly one interval after the last firing fires.
CooldownInclusive == [][DesktopGate /\ EmailGate]_vars

\* The email channel alone.
EmailCooldownInclusive == [][EmailGate]_vars

\* The step found a breach on a path that sends alert emails.
EmailAttempted ==
    /\ events.severity \in Breach
    /\ \/ variant = "ver4" /\ events.op = "monitor_temperature" /\ email_enabled
       \/ variant = "ver6" /\ events.op = "email_scheduler"

\* An email of severity sev was sent too recently for another one at t.
OwnGateClosed(sev, t) ==
    /\ email_sent_at[sev] # 0
    /\ IF variant = "ver4"
       THEN ~DesktopDue(t, email_sent_at[sev])
       ELSE ~EmailDue(t, email_sent_at[sev], critical_email_interval)

\* C7: in every variant that sends alert emails, an email of one severity
\* is held back only by an earlier email of the same severity: a CRITICAL
\* email that is due is not suppressed because a WARNING fired recently,
\* nor a WARNING email because a CRITICAL fired recently.
EmailSeveritiesIndependent ==
    (EmailAttempted /\ events.email = "") =>
        OwnGateClosed(events.severity, events.at)

----------------------------------------------------------------------------
(* SpecChain: the sensor readers of the three variants, on sources that    *)
(* raise, list nothing, list an unusable reading or answer.                *)

OhmReads ==
    {Source(TRUE, <<>>), NoSource, Source(FALSE, <<Sensor("CPU", 50)>>),
     Source(FALSE, <<Sensor("Core", 60), Sensor("other", 0)>>)}
ZoneReads ==
    {Source(TRUE, <<>>), NoSource, Source(FALSE, <<2780, 3280>>)}
PsutilReads ==
    {Source(TRUE, <<>>), NoSource, Source(FALSE, <<0, 47>>)}
Simulations == {Idle, Simulation(TRUE, 0, 0), Simulation(FALSE, 100, 5)}
\* Every combination of hardware reads, and every simulation when no
\* hardware source lists a reading.
Givens ==
    {Given(o, w, p, Idle) : o \in OhmReads, w \in ZoneReads, p \in PsutilReads}
        \cup {Given(NoSource, NoSource, NoSource, sim) : sim \in Simulations}

StorageReads == {ReadError, Read(FALSE, <<>>), Disk(30)}
\* The three reads of one iteration: alike, failing from some read on, or
\* of a drive whose temperature changes from one read to the next.
ReadTriples ==
    {<<r, r, r>> : r \in StorageReads}
        \cup {<<Disk(30), Disk(30), ReadError>>, <<Disk(30), ReadError, ReadError>>}
        \cup {<<Disk(30), Disk(29), Disk(31)>>}

InitChain ==
    \/ \E ohm \in BOOLEAN : Init6(NoFile, TRUE, ohm)
    \/ \E wmi, ohm \in BOOLEAN : Init4(NoFile, wmi, ohm)
    \/ InitApp

NextChain ==
    \/ \E t \in ReadTriples :
           /\ appended < MaxPolls
           /\ monitor_temperature_ver6(t[1], t[2], t[3], "2", FALSE)
    \/ \E read \in StorageReads : email_scheduler(read, read, TRUE)
    \/ \E t \in ReadTriples : manual_refresh_ver6(t[1], t[2], t[3], "2")
    \/ \E read \in StorageReads : send_test_email(read, TRUE)
    \/ \E given \in Givens :
           /\ appended < MaxPolls
           /\ monitor_temperature_ver4(given, "2", FALSE, TRUE)
    \/ \E given \in Givens : manual_refresh_ver4(given, "2")
    \/ start_monitoring
    \/ \E read \in PsutilReads \cup {Entry(80)} :
           /\ appended < MaxPolls
           /\ monitor_temperature_app(1, read, 45, FALSE)
    \/ Tick({Epoch + warning_cooldown + 1})

SpecChain == InitChain /\ [][NextChain]_vars

\* The last step was a read of ver4's chain.
ChainRead == variant = "ver4" /\ events.read.source # "none"

Priority == <<"ohm", "wmi", "psutil">>

\* Whether the call found the source enabled, and what its read gave.
EnabledAtCall(src) ==
    CASE src = "ohm" -> events.read.ohm_before
      [] src = "wmi" -> wmi_available
      [] src = "psutil" -> TRUE
ReadValue(src) ==
    CASE src = "ohm" -> get_temperature_ohm(events.read.given.ohm).ret
      [] src = "wmi" -> get_temperature_builtin_wmi(events.read.given.wmi)
      [] src = "psutil" -> get_temperature_psutil(events.read.given.psutil)

\* The position of the highest-priority enabled source whose read succeeds;
\* one past the last position when there is none.
Answering ==
    LET ok == {i \in DOMAIN Priority :
                   EnabledAtCall(Priority[i]) /\ ReadValue(Priority[i]) # None}
    IN  IF ok = {} THEN Len(Priority) + 1 ELSE Min(ok)

\* The answer is that of the highest-priority enabled source whose read
\* succeeds (the simulation when there is none), and the sources consulted
\* are the enabled ones down to it.
ChainPriority ==
    /\ events.read.source =
           IF Answering <= Len(Priority) THEN Priority[Answering]
           ELSE "simulation"
    /\ events.read.ret =
           IF Answering <= Len(Priority) THEN ReadValue(Priority[Answering])
           ELSE simulate_temperature(events.read.given.sim)
    /\ Range(events.read.attempted) =
           {Priority[i] : i \in {j \in DOMAIN Priority :
                                     j <= Answering /\ EnabledAtCall(Priority[j])}}

\* Whether the source is marked unavailable now; psutil has no mark.
Unavailable(src) ==
    CASE src = "ohm" -> ~ohm_available
      [] src = "wmi" -> ~wmi_available
      [] src = "psutil" -> FALSE

\* C8 as stated: a read of the chain returns the value of the highest-
\* priority source that is not disabled and whose read succeeds, consulting
\* no lower-priority source after it; every source whose read failed during
\* the call is marked unavailable (and so is skipped by every later call).
ChainPriorityAllMarked ==
    ChainRead =>
        /\ ChainPriority
        /\ \A src \in Range(events.read.attempted) :
               ReadValue(src) = None => Unavailable(src)

\* C8, amended: priority as stated; OpenHardwareMonitor alone is marked
\* unavailable, exactly when its read raised, and a call that finds it
\* marked does not attempt it; the thermal-zone and psutil sources stay
\* enabled whatever their read did.
ChainPriorityOhmMarked ==
    ChainRead =>
        /\ ChainPriority
        /\ ohm_available =
               (events.read.ohm_before /\ ~events.read.given.ohm.error)
        /\ ~events.read.ohm_before =>
               \A i \in DOMAIN events.read.attempted :
                   events.read.attempted[i] # "ohm"
        /\ \A i \in DOMAIN events.read.attempted :
               events.read.attempted[i] # "ohm" =>
                   ~Unavailable(events.read.attempted[i])

\* OpenHardwareMonitor raised and was marked, the thermal zones raised and
\* were not, and psutil answered.
ChainPriorityOhmMarkedWitness ==
    /\ ChainRead
    /\ events.read.ohm_before /\ events.read.given.ohm.error
    /\ ~ohm_available
    /\ events.read.given.wmi.error /\ wmi_available
    /\ events.read.attempted = <<"ohm", "wmi", "psutil">>
    /\ events.read.source = "psutil"

\* C9: once ohm_available is False it stays False for the rest of the run.
OhmStaysDisabled == [][~ohm_available => ~ohm_available']_vars

\* ver4's chain was read after OpenHardwareMonitor had been disabled, when
\* a query would have found a CPU sensor, and it stayed disabled.
OhmStaysDisabledWitness ==
    /\ ChainRead
    /\ ~events.read.ohm_before
    /\ ~ohm_available
    /\ wmi_available
    /\ get_temperature_ohm(events.read.given.ohm).ret # None
    /\ appended > 1

\* C10: every poll iteration obtains a temperature value, the simulated one
\* when every hardware source has failed or is disabled, and appends a
\* sample to the history.
PollAlwaysSamples ==
    (events.op = "monitor_temperature" /\ events.dialog = "") =>
        /\ events.value # None
        /\ events.sampled

----------------------------------------------------------------------------
(* SpecClassifier: ver6's reader over listings of sensors with different   *)
(* names and parents, queried by the poll loop and by manual refreshes.    *)

MaxSensors == 2

\* The sensors OpenHardwareMonitor can list, in the order of its listing:
\* two of one drive, one without a Parent attribute, one whose name but not
\* whose parent names a drive, one of a drive that only the hardware list
\* gives away, and one of the processor.
Listing ==
    <<RawSensor("Temperature", "Samsung SSD 970", 35),
      RawSensor("SSD Temperature", "Unknown", 40),
      RawSensor("Temperature", "Samsung SSD 970", 45),
      RawSensor("SSD Temperature", "Intel Core i7", 42),
      RawSensor("Temperature", "WDC WD10EZEX", 38),
      RawSensor("Temperature", "Intel Core i7", 60)>>

\* The sensors of Listing at the positions in S, in the listing's order.
Listed(S) ==
    [k \in 1..Cardinality(S) |->
        Listing[CHOOSE i \in S : Cardinality({j \in S : j < i}) = k - 1]]

\* What w.Hardware() lists.
Hardware == <<"Samsung SSD 970", "WDC WD10EZEX", "Intel Core i7">>

ClassifierReads ==
    {ReadError} \cup
    {Query(FALSE, Listed(S), Hardware) :
        S \in {T \in SUBSET DOMAIN Listing : Cardinality(T) <= MaxSensors}}

InitClassifier == Init6(NoFile, TRUE, TRUE)

NextClassifier ==
    \/ \E read \in ClassifierReads :
           /\ now < Epoch + SeverityPolls * DefaultRefresh
           /\ monitor_temperature_ver6(read, read, read, "2", FALSE)
    \/ \E read \in ClassifierReads : manual_refresh_ver6(read, read, read, "2")
    \/ Sleeping /\ Tick({now + DefaultRefresh})

SpecClassifier == InitClassifier /\ [][NextClassifier]_vars

\* The last step queried OpenHardwareMonitor three times (the dictionary,
\* the maximum, the average) and every query listed the same sensors.
ClassifierRead ==
    /\ variant = "ver6"
    /\ events.op \in {"monitor_temperature", "manual_refresh"}
    /\ events.read.ohm_before
    /\ ~events.args[1].error

\* The positions of the sensors the reader accepts: those the keyword
\* filter passes or, when it passes none, those whose parent the hardware
\* list shows to be a drive.
Accepted(read) ==
    LET filtered == {i \in DOMAIN read.sensors :
                        is_storage_sensor(read.sensors[i].name,
                                          read.sensors[i].parent)}
    IN  IF filtered # {} THEN filtered
        ELSE {i \in DOMAIN read.sensors :
                 /\ ContainsAlternativeKeyword(read.sensors[i].parent)
                 /\ \E h \in DOMAIN read.hardware :
                        read.hardware[h] = read.sensors[i].parent}

\* The parent name when there is one, the sensor name otherwise.
KeyOf(sensor) ==
    IF sensor.parent \in {"", "Unknown"} THEN sensor.name ELSE sensor.parent

\* C11 as stated: every accepted sensor is stored under its parent name
\* when it has one and under its own name otherwise, with its raw value
\* minus the offset of 10.
EverySensorStoredCalibrated ==
    ClassifierRead =>
        LET read == events.args[1]
        IN  \A i \in Accepted(read) :
                /\ KeyOf(read.sensors[i]) \in DOMAIN storage_temperatures
                /\ storage_temperatures[KeyOf(read.sensors[i])] =
                       read.sensors[i].value - CalibrationOffset

\* C11: the dictionary has exactly the keys of the accepted sensors (the
\* parent name when there is one, the sensor name otherwise), and each key
\* holds the raw value of the last accepted sensor with that key minus the
\* offset of 10, whatever was polled or queried before; the maximum and the
\* average that are queried next are those of the same values, with no
\* further subtraction.
LastSensorStoredCalibrated ==
    ClassifierRead =>
        LET read == events.args[1]
            keys == {KeyOf(read.sensors[i]) : i \in Accepted(read)}
            last(key) == Max({i \in Accepted(read) : KeyOf(read.sensors[i]) = key})
            stored == [key \in keys |->
                          read.sensors[last(key)].value - CalibrationOffset]
        IN  /\ DOMAIN storage_temperatures = keys
            /\ \A key \in keys : storage_temperatures[key] = stored[key]
            /\ events.value = IF keys = {} THEN None ELSE Max(Values(stored))
            /\ (events.op = "manual_refresh" /\ keys # {}
                  /\ events.dialog = "") =>
                   events.display.avg_temp =
                       <<SumOver(stored, keys), Cardinality(keys)>>

\* A manual refresh after a poll found a drive's sensor and a sensor without
\* a parent: raw 35 and 40 are stored as 25 and 30 under the drive's name
\* and the sensor's name.
LastSensorStoredCalibratedWitness ==
    /\ ClassifierRead
    /\ events.op = "manual_refresh"
    /\ appended > 0
    /\ Len(events.args[1].sensors) > 1
    /\ storage_temperatures =
           ("Samsung SSD 970" :> 25) @@ ("SSD Temperature" :> 30)
    /\ events.value = 30

----------------------------------------------------------------------------
(* End to end, ver6, under SpecCooldown: a critical value against idle     *)
(* cooldowns, and the same value again inside the cooldowns.               *)

\* The step is an iteration of ver6's poll loop that obtained a value.
PollStep ==
    /\ variant = "ver6"
    /\ monitor_thread' # monitor_thread
    /\ events'.op = "monitor_temperature" /\ events'.sampled

\* The step is an iteration of ver6's email scheduler that obtained a value.
SchedulerStep ==
    /\ variant = "ver6"
    /\ email_thread' # email_thread
    /\ events'.op = "email_scheduler" /\ events'.value # None

\* C12: with alert monitoring enabled, a poll of a value at or above the
\* critical threshold fires the desktop notification when the desktop
\* cooldown is idle, and a scheduler iteration with such a value sends the
\* CRITICAL email when the CRITICAL email cooldown is idle; a poll or a
\* scheduler iteration with such a value up to 10 seconds after the
\* notification, respectively the email, fires neither of them again.
CriticalFiresThenRests ==
    [][/\ (/\ PollStep /\ alert_monitoring_active
           /\ FloatGe(events'.value, critical_temp)) =>
              /\ last_warning_time = 0 =>
                     /\ events'.desktop = "CRITICAL"
                     /\ last_warning_time' = now
              /\ (last_warning_time # 0
                    /\ now - last_warning_time <= SecondPoll) =>
                     /\ events'.desktop = "" /\ events'.email = ""
                     /\ UNCHANGED <<last_warning_time, emailTimes, email_sent_at>>
       /\ (SchedulerStep /\ FloatGe(events'.value, critical_temp)) =>
              /\ last_critical_email_time = 0 =>
                     /\ events'.email = "CRITICAL"
                     /\ last_critical_email_time' = now
                     /\ email_sent_at'["CRITICAL"] = now
              /\ (last_critical_email_time # 0
                    /\ now - last_critical_email_time <= SecondPoll) =>
                     /\ events'.email = "" /\ events'.desktop = ""
                     /\ UNCHANGED <<last_warning_time, emailTimes, email_sent_at>>
      ]_vars

\* The notification and the CRITICAL email went out when the program
\* started, and the second poll, 10 seconds later, of the same critical
\* value has fired nothing.
CriticalFiresThenRestsWitness ==
    /\ variant = "ver6" /\ alert_monitoring_active
    /\ events.op = "monitor_temperature" /\ events.sampled
    /\ events.at = Epoch + SecondPoll
    /\ events.value = critical_temp
    /\ appended = 2
    /\ temp_history = <<critical_temp, critical_temp>>
    /\ events.desktop = "" /\ events.email = ""
    /\ last_warning_time = Epoch
    /\ last_critical_email_time = Epoch
    /\ email_sent_at["CRITICAL"] = Epoch

----------------------------------------------------------------------------
(* SpecLoops: ver6's poll loop and email scheduler with failing iterations, *)
(* failing deliveries and the window being closed.                          *)

LoopClock ==
    {Epoch + o : o \in {MonitorBackoff, SchedulerSleep, SchedulerBackoff,
                        email_interval}}

\* Post-calibration values below and at the default warning threshold.
LoopValues == {15, 17}

InitLoops == Init6(NoFile, TRUE, TRUE)

NextLoops ==
    \/ \E v \in LoopValues, fault \in BOOLEAN :
           /\ appended < MaxPolls
           /\ LET read == Disk(v + CalibrationOffset)
              IN  monitor_temperature_ver6(read, read, read, "2", fault)
    \/ \E v \in LoopValues, smtp_ok \in BOOLEAN :
           LET read == Disk(v + CalibrationOffset)
           IN  email_scheduler(read, read, smtp_ok)
    \/ on_closing(TRUE)
    \/ monitor_exit
    \/ email_exit
    \/ Tick(LoopClock)

SpecLoops == InitLoops /\ [][NextLoops]_vars

\* C13: an iteration of the poll loop or of the email scheduler that raises
\* leaves its loop running: the iteration is abandoned (the poll appends no
\* sample, the scheduler changes no timestamp and no status), the loop
\* sleeps its backoff of 5 or 60 seconds and is then at the top of the
\* while loop again; a loop ends only when is_monitoring is False.
FaultsContained ==
       [][/\ (monitor_thread' # monitor_thread
                /\ events'.dialog = "Monitoring error") =>
                 /\ monitor_thread'.alive
                 /\ monitor_thread'.wake = now + MonitorBackoff
                 /\ UNCHANGED <<history, last_warning_time>>
          /\ (email_thread' # email_thread
                /\ events'.dialog = "Email scheduler error") =>
                 /\ email_thread'.alive
                 /\ email_thread'.wake = now + SchedulerBackoff
                 /\ UNCHANGED <<emailTimes, current_status>>
          /\ (monitor_thread.alive /\ ~monitor_thread'.alive) => ~is_monitoring
          /\ (email_thread.alive /\ ~email_thread'.alive) => ~is_monitoring
         ]_vars

\* The poll loop has appended a sample 5 seconds after an iteration that
\* took a lower value into the statistics and then raised, while the
\* scheduler, whose report raised on the statistics that no poll had filled
\* yet, is in its backoff of 60 seconds.
FaultsContainedWitness ==
    /\ variant = "ver6" /\ is_monitoring
    /\ events.op = "monitor_temperature" /\ events.sampled
    /\ events.at = Epoch + MonitorBackoff
    /\ appended = 1 /\ FloatLt(min_temp, temp_history[1])
    /\ time_history = <<MonitorBackoff>>
    /\ email_thread.alive
    /\ email_thread.wake = Epoch + SchedulerBackoff

----------------------------------------------------------------------------
(* SpecFair: the loops of ver6 and of app.py as threads that the scheduler *)
(* of the operating system runs whenever they are runnable, under a clock  *)
(* that moves to the time at which the next sleeping thread wakes.  The    *)
(* buttons and the close box are pressed whenever the user likes.          *)

Horizon == 100                 \* seconds of polling in one run

\* The live threads that are in a time.sleep.
Sleepers ==
    {th \in {monitor_thread, email_thread} \cup Range(app_threads) :
        th.alive /\ th.wake > now}

time_passes ==
    /\ Sleepers # {}
    /\ Tick({Min({th.wake : th \in Sleepers})})

poll_ver6 ==
    /\ now < Epoch + Horizon
    /\ LET read == Disk(warning_temp + CalibrationOffset)
       IN  monitor_temperature_ver6(read, read, read, "10", FALSE)

report_ver6 ==
    /\ now < Epoch + Horizon
    /\ LET read == Disk(warning_temp + CalibrationOffset)
       IN  email_scheduler(read, read, TRUE)

poll_app(i) ==
    /\ appended < MaxPolls
    /\ monitor_temperature_app(i, Entry(warning_temp), 45, FALSE)

InitFair ==
    \/ Init6(NoFile, TRUE, TRUE)
    \/ InitApp

NextFair ==
    \/ poll_ver6
    \/ report_ver6
    \/ on_closing(TRUE)
    \/ monitor_exit
    \/ email_exit
    \/ Len(app_threads) < MaxThreads /\ start_monitoring
    \/ stop_monitoring
    \/ \E i \in 1..MaxThreads : poll_app(i)
    \/ \E i \in 1..MaxThreads : app_exit(i)
    \/ time_passes

\* A runnable ver6 thread is run: weak fairness of poll_ver6 and of
\* report_ver6, written with their enabling conditions.
PollReady ==
    /\ variant = "ver6" /\ now < Epoch + Horizon
    /\ monitor_thread.alive /\ is_monitoring /\ now >= monitor_thread.wake

ReportReady ==
    /\ variant = "ver6" /\ now < Epoch + Horizon
    /\ email_thread.alive /\ is_monitoring /\ now >= email_thread.wake

ThreadsRun ==
    /\ []<>(~PollReady) \/ []<><<monitor_thread'.wake # monitor_thread.wake>>_vars
    /\ []<>(~ReportReady) \/ []<><<email_thread'.wake # email_thread.wake>>_vars

SpecFair ==
    /\ InitFair /\ [][NextFair]_vars
    /\ ThreadsRun
    /\ WF_vars(monitor_exit) /\ WF_vars(email_exit)
    /\ \A i \in 1..MaxThreads : WF_vars(app_exit(i))
    /\ WF_vars(time_passes)

\* app.py's i-th poll thread is in its loop.
Running(i) == IF i \in DOMAIN app_threads THEN app_threads[i].alive ELSE FALSE

\* C14: a loop that was running when is_monitoring was set to False ends
\* at the top of its next iteration, so it runs no iteration after that:
\* the loops of ver4 and ver6 run an iteration only while the flag has
\* never been cleared, and a thread of app.py only while no Stop has been
\* pressed since it started, which is while no later thread exists.
StoppedLoopIteratesNoMore ==
    [][/\ (monitor_thread.alive /\ monitor_thread'.alive
             /\ monitor_thread' # monitor_thread) => window = "open"
       /\ (email_thread.alive /\ email_thread'.alive
             /\ email_thread' # email_thread) => window = "open"
       /\ \A i \in 1..MaxThreads :
              (Running(i) /\ app_threads'[i].alive
                 /\ app_threads'[i] # app_threads[i]) =>
                  Len(app_threads) = i
      ]_vars

\* In ver6, whose flag only the close box clears and nothing sets again,
\* both loops end once it is cleared.
StopEndsClosedLoops ==
    /\ (variant = "ver6" /\ ~is_monitoring /\ monitor_thread.alive)
           ~> ~monitor_thread.alive
    /\ (variant = "ver6" /\ ~is_monitoring /\ email_thread.alive)
           ~> ~email_thread.alive

\* The step is an iteration of ver6's email scheduler.
ReportStep ==
    /\ variant = "ver6"
    /\ email_thread' # email_thread
    /\ events'.op = "email_scheduler"

\* A dispatch whose delivery fails inside _send_email, which returns False,
\* advances the cooldown timestamp of its severity to the attempt time.
FailedDeliveryAdvancesCooldown ==
    [][(ReportStep /\ ~events'.delivered) =>
          /\ events'.email = "CRITICAL" => last_critical_email_time' = now
          /\ events'.email = "WARNING" => last_warning_email_time' = now
          /\ events'.email = "NORMAL" => last_email_time' = now
      ]_vars

\* C15: a dispatch that fails, by returning failure or by raising, is
\* contained and still advances the cooldown timestamp of its severity to
\* the attempt time, so that the next attempt is a full interval away.
FailedDispatchAdvancesCooldown ==
    [][ReportStep =>
          /\ ~events'.delivered =>
                /\ events'.email = "CRITICAL" => last_critical_email_time' = now
                /\ events'.email = "WARNING" => last_warning_email_time' = now
                /\ events'.email = "NORMAL" => last_email_time' = now
          /\ events'.dialog = "Email scheduler error" =>
                /\ email_thread'.alive
                /\ last_email_time' = now
      ]_vars

\* C16: after a poll iteration that obtained a value, current_status is the
\* severity of that value under the thresholds.
StatusFollowsPoll ==
    (variant = "ver6" /\ events.op = "monitor_temperature"
       /\ events.value # None) =>
        current_status = MonitorSeverity(events.value, warning_temp, critical_temp)

----------------------------------------------------------------------------
(* SpecSustained: a value that stays at the warning threshold, polled by   *)
(* ver6 every 10 seconds and by one thread of app.py every 2 seconds, with *)
(* alert monitoring left enabled.  A runnable thread runs before the clock *)
(* moves on.                                                               *)

sustained_app ==
    /\ now < Epoch + Horizon
    /\ monitor_temperature_app(1, Entry(warning_temp), 45, FALSE)

AppReady ==
    /\ variant = "app" /\ now < Epoch + Horizon /\ is_monitoring
    /\ IF app_threads = <<>> THEN FALSE
       ELSE app_threads[1].alive /\ now >= app_threads[1].wake

clock_moves ==
    /\ ~PollReady /\ ~ReportReady /\ ~AppReady
    /\ time_passes

InitSustained ==
    \/ Init6(NoFile, TRUE, TRUE)
    \/ InitApp

NextSustained ==
    \/ poll_ver6
    \/ report_ver6
    \/ app_threads = <<>> /\ start_monitoring
    \/ sustained_app
    \/ clock_moves

AppRuns ==
    \/ []<>(~AppReady)
    \/ []<><<app_threads # <<>> /\ app_threads' # app_threads>>_vars

SpecSustained ==
    /\ InitSustained /\ [][NextSustained]_vars
    /\ ThreadsRun /\ AppRuns
    /\ WF_vars(clock_moves)

\* Seconds from the start of the program (ver6) or of the poll thread
\* (app.py) to the last desktop notification; negative before the first.
LastFired ==
    IF variant = "ver6" THEN last_warning_time - Epoch
    ELSE IF app_threads = <<>> THEN 0 - 1
    ELSE app_threads[1].last_warning_time

\* The notifications after which the run polls for another cooldown.
Refired == 0..(Horizon - warning_cooldown - 2 * 10)

\* C17: with alert monitoring enabled and the value at or above the warning
\* threshold, a poll fires the desktop notification exactly when more than
\* the cooldown of 30 seconds has gone by since the last one, whatever the
\* severity of the sample before; and while the value stays there every
\* notification is followed by another one.
NotificationRecurs ==
    /\ [][/\ (PollStep /\ alert_monitoring_active
                /\ FloatGe(events'.value, warning_temp)) =>
                 (events'.desktop # "" <=>
                      now - last_warning_time > warning_cooldown)
          /\ (variant = "app" /\ app_threads # <<>>
                /\ app_threads' # app_threads
                /\ events'.op = "monitor_temperature" /\ events'.sampled
                /\ FloatGe(events'.value, warning_temp)) =>
                 (events'.desktop # "" <=>
                      (now - app_threads[1].start_time)
                          - app_threads[1].last_warning_time > warning_cooldown)
         ]_vars
    /\ \A t \in Refired : (LastFired = t) ~> (LastFired > t)

\* The third notification of one unbroken WARNING: the sample before was a
\* WARNING that fired nothing and the two notifications before went out
\* more than 30 seconds apart.
NotificationRecursWitness ==
    /\ events.op = "monitor_temperature" /\ events.desktop = "WARNING"
    /\ LastFired > 2 * warning_cooldown
    /\ Len(temp_history) > 2
    /\ \A i \in DOMAIN temp_history : temp_history[i] = warning_temp

----------------------------------------------------------------------------
(* SpecRestart: app.py polling a value at the warning threshold while the  *)
(* Start and Stop buttons are pressed, for long enough for a thread's      *)
(* cooldown to run out.                                                    *)

RestartRun == 36               \* seconds of polling in one run

\* app.py's i-th poll thread is at the top of its loop.
AtLoopTop(i) ==
    IF i \in DOMAIN app_threads
    THEN app_threads[i].alive /\ now >= app_threads[i].wake
    ELSE FALSE

\* Of the threads that are at the top of their loops the oldest runs first.
restart_poll(i) ==
    /\ now < Epoch + RestartRun
    /\ \A j \in 1..MaxThreads : j < i => ~AtLoopTop(j)
    /\ monitor_temperature_app(i, Entry(warning_temp), 45, FALSE)

\* The clock moves on when every thread is asleep.
restart_clock ==
    /\ \A i \in 1..MaxThreads : ~AtLoopTop(i)
    /\ time_passes

InitRestart == InitApp

NextRestart ==
    \/ Len(app_threads) < MaxThreads /\ start_monitoring
    \/ stop_monitoring
    \/ \E i \in 1..MaxThreads : restart_poll(i)
    \/ \E i \in 1..MaxThreads : app_exit(i)
    \/ restart_clock

SpecRestart == InitRestart /\ [][NextRestart]_vars

\* C18: a desktop notification of either severity is followed by no desktop
\* notification of any severity for 30 seconds.
SharedDesktopCooldown ==
    /\ [][(variant \in {"ver4", "ver6"} /\ monitor_thread' # monitor_thread
             /\ events'.desktop # "") =>
              \/ last_warning_time = 0
              \/ now - last_warning_time >= warning_cooldown
         ]_vars
    /\ [](variant = "app" /\ events.op = "monitor_temperature"
            /\ events.desktop # "" =>
              \A j \in DOMAIN app_threads :
                  LET fired == app_threads[j].start_time
                                   + app_threads[j].last_warning_time
                  IN  \/ app_threads[j].last_warning_time = 0
                      \/ fired = events.at
                      \/ events.at - fired >= warning_cooldown)

\* With one shared timestamp, as in ver4 and ver6, the notifications of a
\* run are more than 30 seconds apart, whatever their severities.
SharedTimestampCooldown ==
    [][(variant \in {"ver4", "ver6"} /\ monitor_thread' # monitor_thread
          /\ events'.desktop # "") =>
           \/ last_warning_time = 0
           \/ now - last_warning_time > warning_cooldown
      ]_vars

\* C19: in ver6 each cooldown timestamp changes only in a step that
\* dispatches on its own channel and severity; in particular a WARNING or
\* CRITICAL email leaves last_email_time, the routine report's, unchanged.
TimestampsChangeOnOwnDispatch ==
    [][variant = "ver6" =>
          /\ last_email_time' # last_email_time => events'.email = "NORMAL"
          /\ last_warning_email_time' # last_warning_email_time =>
                 events'.email = "WARNING"
          /\ last_critical_email_time' # last_critical_email_time =>
                 events'.email = "CRITICAL"
          /\ last_warning_time' # last_warning_time => events'.desktop # ""
      ]_vars

\* The timestamps of the alert emails and of the desktop notification
\* change only with a dispatch of their own.
AlertTimestampsChangeOnOwnDispatch ==
    [][variant = "ver6" =>
          /\ last_warning_email_time' # last_warning_email_time =>
                 events'.email = "WARNING"
          /\ last_critical_email_time' # last_critical_email_time =>
                 events'.email = "CRITICAL"
          /\ last_warning_time' # last_warning_time => events'.desktop # ""
      ]_vars

\* C20: min_temp and max_temp go back to inf and -inf in the scheduler
\* iteration that dispatches the routine report, and in no other step; in
\* any other step they change only by a poll taking its value into them, so
\* that between two resets they are the minimum and the maximum of the
\* values polled since the last one.
StatsResetWithReport ==
    [][variant = "ver6" =>
          /\ (ReportStep /\ events'.email = "NORMAL") =>
                 min_temp' = PosInf /\ max_temp' = NegInf
          /\ ~(ReportStep /\ events'.email = "NORMAL") =>
                 IF monitor_thread' # monitor_thread
                      /\ events'.op = "monitor_temperature"
                      /\ events'.value # None
                 THEN /\ min_temp' = IF events'.value < min_temp
                                     THEN events'.value ELSE min_temp
                      /\ max_temp' = IF events'.value > max_temp
                                     THEN events'.value ELSE max_temp
                 ELSE UNCHANGED stats
      ]_vars

\* The routine report has gone out after two polls of different values and
\* has emptied the statistics.
StatsResetWithReportWitness ==
    /\ variant = "ver6"
    /\ events.op = "email_scheduler" /\ events.email = "NORMAL"
    /\ appended = 2 /\ temp_history[1] # temp_history[2]
    /\ min_temp = PosInf /\ max_temp = NegInf

----------------------------------------------------------------------------
(* Alert monitoring switched off (ver4 and ver6), checked under Spec.      *)

\* A poll iteration of ver4 or ver6 that ran to its end.
PollCompleted ==
    /\ variant \in {"ver4", "ver6"}
    /\ monitor_thread' # monitor_thread
    /\ events'.op = "monitor_temperature"
    /\ events'.dialog = ""

\* C21: a poll iteration that runs while alert monitoring is disabled sends
\* no desktop notification and leaves last_warning_time as it was, whatever
\* the reading; when it obtained a value it still appends the value and its
\* time to the history.
DisabledAlertsPollOnlySamples ==
    [][(PollCompleted /\ ~alert_monitoring_active)
         => /\ events'.desktop = ""
            /\ last_warning_time' = last_warning_time
            /\ events'.value # None
                 => /\ events'.sampled
                    /\ appended' = appended + 1
                    /\ temp_history'[Len(temp_history')] = events'.value
                    /\ time_history'[Len(time_history')] =
                         now - monitor_thread.start_time]_vars

\* Alert monitoring is off, the desktop cooldown is over and the last step
\* is a poll that sampled a reading at or above the critical threshold.
DisabledAlertsPollOnlySamplesWitness ==
    /\ ~alert_monitoring_active
    /\ events.op = "monitor_temperature"
    /\ events.sampled
    /\ FloatGe(events.value, critical_temp)
    /\ DesktopDue(events.at, last_warning_time)
    /\ events.desktop = ""
    /\ temp_history # <<>>

\* C22: from stop_alert_monitoring until the next start_alert_monitoring no
\* step dispatches a temperature alert: no desktop notification and no
\* WARNING or CRITICAL alert email.
NoAlertWhileStopped ==
    [][(~alert_monitoring_active /\ ~alert_monitoring_active'
          /\ events' # events)
         => /\ events'.desktop = ""
            /\ events'.email \notin Breach
            /\ \A sev \in Breach : email_sent_at'[sev] = email_sent_at[sev]]_vars

----------------------------------------------------------------------------
(* ver6: monitor_temperature, one statement at a time.  The poll thread,   *)
(* the report thread and the Tk main loop run the code of one object with  *)
(* no lock between them, so the other threads may run between any two      *)
(* statements of an iteration.  The thread record then also holds the      *)
(* statement the thread is at (pc) and its local variables: max_temp and   *)
(* current_time, and the value of self.critical_temp which the test of     *)
(* line 911 used.  `entry` is the threshold pair at that test.             *)

Position(thread) == IF "pc" \in DOMAIN thread THEN thread.pc ELSE "top"

Frame(pc, m, current_time) ==
    [alive |-> TRUE, start_time |-> monitor_thread.start_time,
     wake |-> monitor_thread.wake, pc |-> pc, max_temp |-> m,
     current_time |-> current_time, critical_temp |-> None, entry |-> <<>>]

\* Lines 934-940: back to the top of the loop after time.sleep.
sleep_refresh(refresh) ==
    [monitor_thread EXCEPT !.pc = "top", !.wake = now + RefreshDelay(refresh)]

\* Lines 884-893 (and 930-940 when there is no value).
poll_read(r1, r2, r3, refresh) ==
    /\ variant = "ver6"
    /\ Position(monitor_thread) = "top"
    /\ monitor_thread.alive /\ is_monitoring /\ now >= monitor_thread.wake
    /\ LET g1 == get_storage_temperatures(ohm_available, r1)
           g2 == get_max_storage_temperature(g1.ohm, r2)
           g3 == get_average_storage_temperature(g2.ohm, r3)
           m == g2.ret
           ev == [Step("monitor_temperature") EXCEPT
                    !.value = m, !.args = <<r1, r2, r3>>,
                    !.read = [NoRead EXCEPT !.ohm_before = ohm_available]]
       IN  /\ storage_temperatures' = g1.ret
           /\ ohm_available' = g3.ohm
           /\ IF m # None
              THEN /\ monitor_thread' =
                        Frame("min", m, now - monitor_thread.start_time)
                   /\ events' = ev
              ELSE /\ monitor_thread' =
                        [Frame("top", m, now - monitor_thread.start_time)
                           EXCEPT !.wake = now + RefreshDelay(refresh)]
                   /\ events' =
                        [ev EXCEPT
                           !.display = update_display(None, <<>>,
                               warning_temp, critical_temp,
                               alert_monitoring_active)]
    /\ UNCHANGED <<variant, now, settings_file, thresholds, is_monitoring,
                   alert_monitoring_active, wmi_available, last_warning_time,
                   emailTimes, history, stats, current_status, email_thread,
                   app_threads, email_enabled, window, buttons, email_sent_at>>

\* What the statements between the read and the alert check leave alone.
PollLocal ==
    UNCHANGED <<variant, now, settings_file, thresholds, is_monitoring,
                alert_monitoring_active, readers, last_warning_time,
                emailTimes, storage_temperatures, current_status,
                email_thread, app_threads, email_enabled, window, buttons,
                email_sent_at, events>>

\* Line 896: if max_temp < self.min_temp.
poll_min_test ==
    /\ Position(monitor_thread) = "min"
    /\ monitor_thread' =
         [monitor_thread EXCEPT
            !.pc = IF monitor_thread.max_temp < min_temp
                   THEN "min_write" ELSE "max"]
    /\ PollLocal /\ UNCHANGED <<history, stats>>

\* Line 897: self.min_temp = max_temp.
poll_min_write ==
    /\ Position(monitor_thread) = "min_write"
    /\ min_temp' = monitor_thread.max_temp
    /\ monitor_thread' = [monitor_thread EXCEPT !.pc = "max"]
    /\ PollLocal /\ UNCHANGED <<history, max_temp>>

\* Line 898: if max_temp > self.max_temp.
poll_max_test ==
    /\ Position(monitor_thread) = "max"
    /\ monitor_thread' =
         [monitor_thread EXCEPT
            !.pc = IF monitor_thread.max_temp > max_temp
                   THEN "max_write" ELSE "append_temp"]
    /\ PollLocal /\ UNCHANGED <<history, stats>>

\* Line 899: self.max_temp = max_temp.
poll_max_write ==
    /\ Position(monitor_thread) = "max_write"
    /\ max_temp' = monitor_thread.max_temp
    /\ monitor_thread' = [monitor_thread EXCEPT !.pc = "append_temp"]
    /\ PollLocal /\ UNCHANGED <<history, min_temp>>

\* Line 905: self.temp_history.append(max_temp).
poll_append_temp ==
    /\ Position(monitor_thread) = "append_temp"
    /\ temp_history' = DequeAppend(temp_history, monitor_thread.max_temp)
    /\ monitor_thread' = [monitor_thread EXCEPT !.pc = "append_time"]
    /\ PollLocal /\ UNCHANGED <<time_history, appended, stats>>

\* Line 906: self.time_history.append(current_time).
poll_append_time ==
    /\ Position(monitor_thread) = "append_time"
    /\ time_history' = DequeAppend(time_history, monitor_thread.current_time)
    /\ appended' = appended + 1
    /\ monitor_thread' = [monitor_thread EXCEPT !.pc = "critical"]
    /\ PollLocal /\ UNCHANGED <<temp_history, stats>>

\* What the alert check leaves alone.
AlertLocal ==
    UNCHANGED <<variant, now, settings_file, thresholds, is_monitoring,
                alert_monitoring_active, readers, emailTimes, history, stats,
                storage_temperatures, current_status, email_thread,
                app_threads, email_enabled, window, buttons, email_sent_at>>

\* Lines 909-919: the alert-monitoring test and the test against
\* self.critical_temp, with the notification when the cooldown is over.
poll_critical(refresh) ==
    /\ Position(monitor_thread) = "critical"
    /\ LET m == monitor_thread.max_temp
           ev == [Step("monitor_temperature") EXCEPT
                    !.value = m, !.sampled = TRUE]
           fire == DesktopDue(now, last_warning_time)
       IN  IF ~alerts_checked(alert_monitoring_active)
           THEN /\ monitor_thread' = sleep_refresh(refresh)
                /\ events' = ev
                /\ UNCHANGED last_warning_time
           ELSE IF m >= critical_temp
           THEN /\ monitor_thread' = sleep_refresh(refresh)
                /\ last_warning_time' = IF fire THEN now ELSE last_warning_time
                /\ events' =
                     [ev EXCEPT !.severity = "CRITICAL",
                                !.desktop = IF fire THEN "CRITICAL" ELSE ""]
           ELSE /\ monitor_thread' =
                     [monitor_thread EXCEPT
                        !.pc = "warning", !.critical_temp = critical_temp,
                        !.entry = <<warning_temp, critical_temp>>]
                /\ events' = ev
                /\ UNCHANGED last_warning_time
    /\ AlertLocal

\* Lines 920-928: the test against self.warning_temp.  The step records
\* the pair of thresholds that classified the sample.
poll_warning(refresh) ==
    /\ Position(monitor_thread) = "warning"
    /\ LET m == monitor_thread.max_temp
           sev == IF m >= warning_temp THEN "WARNING" ELSE "NORMAL"
           fire == sev = "WARNING" /\ DesktopDue(now, last_warning_time)
       IN  /\ monitor_thread' = sleep_refresh(refresh)
           /\ last_warning_time' = IF fire THEN now ELSE last_warning_time
           /\ events' =
                [Step("monitor_temperature") EXCEPT
                   !.value = m, !.sampled = TRUE, !.severity = sev,
                   !.args = <<warning_temp, monitor_thread.critical_temp>>,
                   !.desktop = IF fire THEN "WARNING" ELSE ""]
    /\ AlertLocal

----------------------------------------------------------------------------
(* SpecInterleaved: ver6 with the statements of the poll iteration         *)
(* interleaved with the email scheduler, update_settings and the Refresh   *)
(* button.  Time passes while the poll thread sleeps.                      *)

\* The drive warms by one degree from one poll to the next, so that a
\* value in the history tells which sample it belongs to.
ReadingAt(t) == 15 + (t - Epoch) \div DefaultRefresh

InterleavedTexts == {"17", "20", "25"}

InitInterleaved == Init6(NoFile, TRUE, TRUE)

NextInterleaved ==
    \/ /\ appended < MaxPolls
       /\ LET read == Disk(ReadingAt(now) + CalibrationOffset)
          IN  poll_read(read, read, read, "2")
    \/ poll_min_test
    \/ poll_min_write
    \/ poll_max_test
    \/ poll_max_write
    \/ poll_append_temp
    \/ poll_append_time
    \/ poll_critical("2")
    \/ poll_warning("2")
    \/ LET read == Disk(15 + CalibrationOffset)
       IN  email_scheduler(read, read, TRUE)
    \/ \E w, c \in InterleavedTexts : update_settings(w, c, TRUE)
    \/ LET read == Disk(15 + CalibrationOffset)
       IN  manual_refresh_ver6(read, read, read, "2")
    \/ /\ Position(monitor_thread) = "top" /\ now < monitor_thread.wake
       /\ Tick({now + DefaultRefresh})

SpecInterleaved == InitInterleaved /\ [][NextInterleaved]_vars

\* The poll thread has tested a statistic and has not written it yet.
MidUpdate(stat) == Position(monitor_thread) = stat \o "_write"

\* C23: access to the state the loops share is serialized.  For the running
\* minimum and maximum, which the poll loop and the report loop both write:
\* between the poll loop's test of a statistic and its write of it no
\* other thread writes that statistic, and a sample the poll loop has taken
\* into the statistics is in both of them when the iteration ends.
SharedStateSerialized ==
    [][/\ (MidUpdate("min") /\ monitor_thread' = monitor_thread)
             => min_temp' = min_temp
       /\ (MidUpdate("max") /\ monitor_thread' = monitor_thread)
             => max_temp' = max_temp
       /\ (Position(monitor_thread) = "max_write" /\ poll_max_write)
             => min_temp' <= monitor_thread.max_temp]_vars

\* With steps as whole iterations the statistics do take every sample: a
\* poll that obtained a value leaves it between min_temp and max_temp.
StatsTakeEverySample ==
    [][PollStep => /\ min_temp' <= events'.value
                   /\ events'.value <= max_temp']_vars

\* C24: the timestamps in the history ascend strictly from the oldest
\* sample to the newest, in every reachable state.
HistoryAscending ==
    \A i \in 1..(Len(time_history) - 1) : time_history[i] < time_history[i + 1]

\* The positions of the sensors with a storage keyword of _is_storage_sensor
\* in their name or in their parent name.
KeywordMatches(read) ==
    {i \in DOMAIN read.sensors :
        \/ ContainsStorageKeyword(read.sensors[i].name)
        \/ ContainsStorageKeyword(read.sensors[i].parent)}

\* C25: a temperature sensor is accepted if and only if a storage keyword
\* occurs in its name or in its parent name: the device mapping a read
\* returns has the keys of the sensors that match and of no other sensor.
AcceptedIffKeyword ==
    ClassifierRead =>
        LET read == events.args[1]
        IN  DOMAIN storage_temperatures =
                {KeyOf(read.sensors[i]) : i \in KeywordMatches(read)}

\* C26: in app.py at most one poll thread runs at any time: while a thread
\* executes an iteration of its loop no other poll thread is in its loop.
OnePollThread ==
    [][\A i \in 1..MaxThreads :
          (Running(i) /\ app_threads'[i].wake # app_threads[i].wake) =>
              \A j \in DOMAIN app_threads : j # i => ~app_threads[j].alive
      ]_vars

\* C27: whenever update_graph reads the history it finds as many values as
\* timestamps, and the i-th value is the reading of the sample that the
\* i-th timestamp belongs to.
GraphPlotsWholeSamples ==
    (events.op = "manual_refresh" /\ events.graph # <<>>) =>
        LET times == events.graph[1]
            temps == events.graph[2]
        IN  /\ Len(times) = Len(temps)
            /\ \A i \in DOMAIN temps \cap DOMAIN times :
                   temps[i] = ReadingAt(monitor_thread.start_time + times[i])

\* C28: whenever the poll loop is between two iterations the running
\* statistics are both empty (min_temp = +inf and max_temp = -inf) or both
\* finite with min_temp <= max_temp.
StatsConsistentAtBoundary ==
    (variant = "ver6" /\ Position(monitor_thread) = "top") =>
        \/ min_temp = PosInf /\ max_temp = NegInf
        \/ /\ min_temp # PosInf /\ max_temp # NegInf
           /\ min_temp <= max_temp

\* C29: the thresholds that classify a sample are one pair of the settings:
\* the pair in force when the classification began or the pair in force
\* when it ends, never the warning threshold of one with the critical
\* threshold of the other, so that the warning threshold used is below the
\* critical one; each test reads the threshold in force when it runs.
ClassifiesWithOnePair ==
    [][/\ (Position(monitor_thread) = "critical"
             /\ monitor_thread'.pc = "warning")
          => monitor_thread'.critical_temp = critical_temp
       /\ (Position(monitor_thread) = "warning"
             /\ monitor_thread'.pc = "top")
          => LET used == <<warning_temp, monitor_thread.critical_temp>>
             IN  /\ used \in {monitor_thread.entry,
                              <<warning_temp, critical_temp>>}
                 /\ used[1] < used[2]
                 /\ events'.args = used]_vars

\* C30: the device mapping, the maximum and the average of one poll
\* iteration of ver6 come from one snapshot of the sensors: when the mapping
\* is not empty the maximum is the largest of its values, and the average
\* handed to the display is the mean of its values and so not above the
\* maximum.
OneSnapshotPerIteration ==
    (variant = "ver6" /\ events.op = "monitor_temperature"
       /\ events.dialog = "") =>
        LET devices == storage_temperatures
            avg == events.display.avg_temp
        IN  /\ devices # EmptyDict =>
                   events.value = Max(Values(devices))
            /\ (events.sampled /\ avg # <<>>) =>
                   /\ avg = <<SumOver(devices, DOMAIN devices),
                              Cardinality(DOMAIN devices)>>
                   /\ avg[1] <= events.value * avg[2]

\* When the three reads of an iteration list the same sensors, its
\* mapping, maximum and average agree.
SameReadsAgree ==
    (Len(events.args) = 3 /\ events.args[1] = events.args[2]
       /\ events.args[2] = events.args[3]) => OneSnapshotPerIteration

====
